---- MODULE Spec2Model ----
(***************************************************************************)
(* gitws: the marker-delimited config block editor (internal/fsutil,       *)
(* internal/ssh, internal/workspace) and the atomic-write / backup layer.  *)
(*                                                                         *)
(* A Go string is a sequence of one-character strings.  Go indexes from 0  *)
(* and slices half-open, content[a:b]; Slice below keeps that convention,  *)
(* so every index in the model is the index the Go code computes.          *)
(***************************************************************************)
EXTENDS Integers, Sequences, FiniteSets, TLC

VARIABLES
    content,    \* editor: the Config Document text the next operation reads
    orig,       \* editor: the document as it was before the first operation
    markers,    \* editor: the marker pair in use, with the file it belongs to
    last,       \* editor: the last operation, its input and what it returned
    nops,       \* editor: operations applied so far
    upsertsOnly,\* editor: TRUE while no Remove has been applied
    cfgFile,    \* files: the file at the path being written (~/.ssh/config)
    tmpFile,    \* files: the temporary file of the AtomicWrite in progress
    backups,    \* files: the backup file path.bak.<timestamp>, per timestamp
    now,        \* files: the clock, in seconds
    pc,         \* files: where the running command stands
    call,       \* files: the running (or last) call: its function and inputs
    ret,        \* files: what the last finished call returned
    ncalls,     \* files: commands started so far
    gitFile,    \* commands: ~/.gitconfig
    gitBackups, \* commands: the backup files of ~/.gitconfig, per timestamp
    wsFiles,    \* commands: ~/.gws/gitconfig/<workspace>, per workspace
    registry,   \* commands: ~/.gws/config.yaml, the workspaces it records
    keys,       \* commands: the private key file of each workspace
    keygens,    \* commands: ssh-keygen runs so far
    keyBackups, \* commands: the key copies <key>.old-<timestamp>
    cmd,        \* commands: the command that ran last, and what it returned
    inited,     \* commands: the workspaces whose init returned nil
    proc,       \* race: each concurrent invocation, where it stands
    lastRename, \* race: the invocation that renamed last (0: none yet)
    args,       \* tools: the arguments of the function called
    result,     \* tools: what the function returned
    gitRepo,    \* tools: the repository a command is run in
    fix,        \* tools: the last run of fix: what it showed, queued, applied
    issues      \* tools: the issues the last run of doctor reported

editVars == <<content, orig, markers, last, nops, upsertsOnly>>

fsVars == <<cfgFile, tmpFile, backups, now, pc, call, ret, ncalls>>

cliVars == <<gitFile, gitBackups, wsFiles, registry, keys, keygens, keyBackups,
             cmd, inited>>

raceVars == <<proc, lastRename>>

toolVars == <<args, result, gitRepo, fix, issues>>

vars == <<content, orig, markers, last, nops, upsertsOnly,
          cfgFile, tmpFile, backups, now, pc, call, ret, ncalls,
          gitFile, gitBackups, wsFiles, registry, keys, keygens, keyBackups,
          cmd, inited, proc, lastRename, args, result, gitRepo, fix, issues>>

(***************************************************************************)
(* Bounds of the model.                                                    *)
(***************************************************************************)
MaxPieces == 3      \* pieces an initial document is concatenated from
MaxOps == 3         \* editor operations in one behaviour
MaxCalls == 2       \* commands run against the files in one behaviour
MaxClock == 2       \* seconds the clock can show

(***************************************************************************)
(* Strings.                                                                *)
(***************************************************************************)
NL == <<"\n">>

\* Go's len(s).
len(s) == Len(s)

\* Go's s[a:b]; the caller checks SliceInRange first (Go panics otherwise).
Slice(s, a, b) == SubSeq(s, a + 1, b)

\* The run-time bounds check of s[a:b]: 0 <= a <= b <= len(s).
SliceInRange(s, a, b) == 0 <= a /\ a <= b /\ b <= Len(s)

\* The positions (0-based) at which substr occurs in s (the first character
\* is compared first, the rest only where it matches).
Occurrences(s, substr) ==
    { i \in 0..(Len(s) - Len(substr)) :
        \/ Len(substr) = 0
        \/ /\ s[i + 1] = substr[1]
           /\ SubSeq(s, i + 1, i + Len(substr)) = substr }

\* strings.Index: the first position of substr in s, or -1.
Index(s, substr) ==
    LET occ == Occurrences(s, substr)
    IN  IF occ = {} THEN -1 ELSE CHOOSE i \in occ : \A j \in occ : i <= j

\* strings.Contains.
Contains(s, substr) == Occurrences(s, substr) # {}

\* unicode.IsSpace on the characters the documents hold.
IsSpace(c) == c \in {" ", "\n", "\t", "\r"}

\* strings.TrimSpace: s without its leading and trailing white space.
TrimSpace(s) ==
    LET keep == { i \in 1..Len(s) : ~IsSpace(s[i]) }
    IN  IF keep = {} THEN <<>>
        ELSE SubSeq(s, CHOOSE i \in keep : \A j \in keep : i <= j,
                       CHOOSE i \in keep : \A j \in keep : i >= j)

(***************************************************************************)
(* internal/workspace: the marker literals.                                *)
(***************************************************************************)
\* fmt.Sprintf("# >>> gws %s >>> DO NOT EDIT", workspace)
StartMarker(workspace) ==
    <<"#"," ",">",">",">"," ","g","w","s"," ">> \o workspace
        \o <<" ",">",">",">"," ","D","O"," ","N","O","T"," ","E","D","I","T">>

\* fmt.Sprintf("# <<< gws %s <<<", workspace)
EndMarker(workspace) ==
    <<"#"," ","<","<","<"," ","g","w","s"," ">> \o workspace \o <<" ","<","<","<">>

IncludeIfStartMarker ==
    <<"#"," ",">",">",">"," ","g","w","s"," ","i","n","c","l","u","d","e","I","f",
      " ",">",">",">"," ","D","O"," ","N","O","T"," ","E","D","I","T">>

IncludeIfEndMarker ==
    <<"#"," ","<","<","<"," ","g","w","s"," ","i","n","c","l","u","d","e","I","f",
      " ","<","<","<">>

\* BuildIncludeIfCondition: "gitdir:" + root, root made to end with "/".
BuildIncludeIfCondition(root) ==
    <<"g","i","t","d","i","r",":">>
        \o (IF Len(root) > 0 /\ root[Len(root)] = "/" THEN root ELSE root \o <<"/">>)

(***************************************************************************)
(* internal/fsutil: the marker block editor.                               *)
(***************************************************************************)
\* ReplaceBetweenMarkers with the separator of the first install left out.
ReplaceBetweenMarkers_NoSeparator(doc, startMarker, endMarker, newContent) ==
    LET startIdx == Index(doc, startMarker)
    IN  IF startIdx = -1
        THEN [text |-> doc \o newContent, changed |-> TRUE]
        ELSE LET rel == Index(Slice(doc, startIdx, len(doc)), endMarker)
             IN  IF rel = -1
                 THEN [text |-> doc \o NL \o newContent, changed |-> TRUE]
                 ELSE LET endIdx == rel + startIdx + len(endMarker)
                          before == Slice(doc, 0, startIdx)
                          after  == Slice(doc, endIdx, len(doc))
                      IN  [text |-> before \o newContent \o NL \o after,
                           changed |-> TRUE]

\* ReplaceBetweenMarkers with endIdx left at the start of the end marker
\* (len(endMarker) not added), so the old end marker stays in the document.
ReplaceBetweenMarkers_KeepsEndMarker(doc, startMarker, endMarker, newContent) ==
    LET startIdx == Index(doc, startMarker)
    IN  IF startIdx = -1
        THEN IF doc = <<>>
             THEN [text |-> newContent, changed |-> TRUE]
             ELSE [text |-> doc \o NL \o newContent, changed |-> TRUE]
        ELSE LET rel == Index(Slice(doc, startIdx, len(doc)), endMarker)
             IN  IF rel = -1
                 THEN [text |-> doc \o NL \o newContent, changed |-> TRUE]
                 ELSE LET endIdx == rel + startIdx
                          before == Slice(doc, 0, startIdx)
                          after  == Slice(doc, endIdx, len(doc))
                      IN  [text |-> before \o newContent \o NL \o after,
                           changed |-> TRUE]

\* ReplaceBetweenMarkers that appends whether or not the block is there.
ReplaceBetweenMarkers_AlwaysAppends(doc, startMarker, endMarker, newContent) ==
    IF doc = <<>>
    THEN [text |-> newContent, changed |-> TRUE]
    ELSE [text |-> doc \o NL \o newContent, changed |-> TRUE]

\* ReplaceBetweenMarkers that looks for the end marker in the whole document,
\* not only from the start marker on.
ReplaceBetweenMarkers_SearchesWholeDoc(doc, startMarker, endMarker, newContent) ==
    LET startIdx == Index(doc, startMarker)
    IN  IF startIdx = -1
        THEN IF doc = <<>>
             THEN [text |-> newContent, changed |-> TRUE]
             ELSE [text |-> doc \o NL \o newContent, changed |-> TRUE]
        ELSE LET rel == Index(doc, endMarker)
             IN  IF rel = -1
                 THEN [text |-> doc \o NL \o newContent, changed |-> TRUE]
                 ELSE LET endIdx == rel + len(endMarker)
                          before == Slice(doc, 0, startIdx)
                          after  == Slice(doc, endIdx, len(doc))
                      IN  [text |-> before \o newContent \o NL \o after,
                           changed |-> TRUE]

\* ReplaceBetweenMarkers returns (result, changed).
ReplaceBetweenMarkers(doc, startMarker, endMarker, newContent) ==
    LET startIdx == Index(doc, startMarker)
    IN  IF startIdx = -1
        THEN IF doc = <<>>
             THEN [text |-> newContent, changed |-> TRUE]
             ELSE [text |-> doc \o NL \o newContent, changed |-> TRUE]
        ELSE LET rel == Index(Slice(doc, startIdx, len(doc)), endMarker)
             IN  IF rel = -1
                 THEN [text |-> doc \o NL \o newContent, changed |-> TRUE]
                 ELSE LET endIdx == rel + startIdx + len(endMarker)
                          before == Slice(doc, 0, startIdx)
                          after  == Slice(doc, endIdx, len(doc))
                      IN  [text |-> before \o newContent \o NL \o after,
                           changed |-> TRUE]

\* ExtractBetweenMarkers returns (extracted, found); the slice expression
\* content[startIdx:endIdx] panics when its bounds check fails.
ExtractBetweenMarkers(doc, startMarker, endMarker) ==
    LET startIdx0 == Index(doc, startMarker)
    IN  IF startIdx0 = -1
        THEN [text |-> <<>>, found |-> FALSE, panicked |-> FALSE]
        ELSE LET endIdx0 == Index(Slice(doc, startIdx0, len(doc)), endMarker)
             IN  IF endIdx0 = -1
                 THEN [text |-> <<>>, found |-> FALSE, panicked |-> FALSE]
                 ELSE LET startIdx == startIdx0 + len(startMarker)
                          endIdx   == endIdx0 + startIdx
                      IN  IF SliceInRange(doc, startIdx, endIdx)
                          THEN [text |-> TrimSpace(Slice(doc, startIdx, endIdx)),
                                found |-> TRUE, panicked |-> FALSE]
                          ELSE [text |-> <<>>, found |-> FALSE, panicked |-> TRUE]

(***************************************************************************)
(* internal/ssh: the removal of a managed block, and the rendered blocks.  *)
(***************************************************************************)
\* The removal with a newline put where the block was.
RemoveBlock_AddsSeparator(doc, startMarker, endMarker) ==
    LET startIdx == Index(doc, startMarker)
    IN  IF startIdx = -1
        THEN [text |-> doc, found |-> FALSE]
        ELSE LET rel == Index(Slice(doc, startIdx, len(doc)), endMarker)
             IN  IF rel = -1
                 THEN [text |-> doc, found |-> FALSE]
                 ELSE LET endIdx == rel + startIdx + len(endMarker)
                          before == Slice(doc, 0, startIdx)
                          after  == Slice(doc, endIdx, len(doc))
                      IN  [text |-> before \o NL \o after, found |-> TRUE]

\* The string transform of RemoveSSHConfigBlock: found is FALSE on the two
\* early returns that write nothing.
RemoveBlock(doc, startMarker, endMarker) ==
    LET startIdx == Index(doc, startMarker)
    IN  IF startIdx = -1
        THEN [text |-> doc, found |-> FALSE]
        ELSE LET rel == Index(Slice(doc, startIdx, len(doc)), endMarker)
             IN  IF rel = -1
                 THEN [text |-> doc, found |-> FALSE]
                 ELSE LET endIdx == rel + startIdx + len(endMarker)
                          before == Slice(doc, 0, startIdx)
                          after  == Slice(doc, endIdx, len(doc))
                      IN  [text |-> before \o after, found |-> TRUE]

\* The Host block UpsertSSHConfigBlock renders.
SSHBlock(startMarker, alias, hostName, keyPath, endMarker) ==
    startMarker
        \o <<"\n","H","o","s","t"," ">> \o alias
        \o <<"\n"," "," ","H","o","s","t","N","a","m","e"," ">> \o hostName
        \o <<"\n"," "," ","U","s","e","r"," ","g","i","t",
             "\n"," "," ","I","d","e","n","t","i","t","y","F","i","l","e"," ">> \o keyPath
        \o <<"\n"," "," ","I","d","e","n","t","i","t","i","e","s","O","n","l","y",
             " ","y","e","s","\n">>
        \o endMarker

\* The includeIf block updateGlobalGitConfig renders.
IncludeIfBlock(startMarker, condition, path, endMarker) ==
    startMarker
        \o <<"\n","[","i","n","c","l","u","d","e","I","f"," ","\"">> \o condition
        \o <<"\"","]","\n"," "," ","p","a","t","h"," ","="," ">> \o path
        \o <<"\n">>
        \o endMarker

(***************************************************************************)
(* Files.  A file is absent, or holds data under permission bits.          *)
(***************************************************************************)
NoFile == [exists |-> FALSE, data |-> <<>>, perm |-> "none"]

File(data, perm) == [exists |-> TRUE, data |-> data, perm |-> perm]

\* fsutil.FileExists: os.Stat does not report "not exist".
FileExists(f) == f.exists

\* os.CreateTemp: a new empty file, mode 0600, under a fresh name.
CreateTemp == File(<<>>, "0600")

\* tmpFile.Write(data).
WriteData(f, data) == [f EXCEPT !.data = data]

\* tmpFile.Chmod(perm) left out: the file keeps the mode CreateTemp gave it.
Chmod_Skipped(f, perm) == f

\* tmpFile.Chmod(perm).
Chmod(f, perm) == [f EXCEPT !.perm = perm]

\* os.Rename carried out as a copy that stops one byte short.
Rename_CutShort(tmp, old) ==
    [tmp EXCEPT !.data = SubSeq(tmp.data, 1, Len(tmp.data) - 1)]

\* os.Rename that adds the new bytes to the ones the target holds.
Rename_Merges(tmp, old) == [tmp EXCEPT !.data = old.data \o tmp.data]

\* os.Rename(tmp, path): what path holds afterwards.
Rename(tmp, old) == tmp

\* The deferred os.Remove left out: the temporary file stays.
RemoveFile_Forgotten(f) == f

\* The deferred os.Remove(tmpFile.Name()): the name holds no file afterwards
\* (its result is not looked at; after the rename the name is already gone).
RemoveFile(f) == NoFile

Timestamps == 1..MaxClock

NoCall == [fn |-> "none", data |-> <<>>, perm |-> "none", pre |-> NoFile,
           preBackups |-> [t \in Timestamps |-> NoFile]]

NoRet == [fn |-> "none", err |-> "none", cause |-> "none", outcome |-> "none"]

\* The file layer at rest, with nothing on disk (the editor's behaviours).
FsIdle ==
    /\ cfgFile = NoFile
    /\ tmpFile = NoFile
    /\ backups = [t \in Timestamps |-> NoFile]
    /\ now = 1
    /\ pc = "idle"
    /\ call = NoCall
    /\ ret = NoRet
    /\ ncalls = 0

(***************************************************************************)
(* The commands' files and the concurrent invocations, at rest.            *)
(***************************************************************************)
\* os.UserHomeDir().
Home == <<"/","h">>

\* GitConfigPath(workspace): ~/.gws/gitconfig/<workspace>.
GitConfigPath(workspace) == Home \o <<"/",".","g","w","s","/","g","i","t","c","o","n","f","i","g","/">> \o workspace

\* The workspaces the commands are run for.
CliWorkspaces == { <<"a">>, <<"b">> }

\* config.File with no workspace.
NoWorkspaces == [w \in {} |-> TRUE]

\* A key file that does not exist; a key is a number, one per ssh-keygen run.
NoKey == 0

NoCmd == [name |-> "none", ws |-> <<>>, err |-> "none", confirmed |-> FALSE,
          force |-> FALSE, wrote |-> {},
          preSSH |-> NoFile, preGit |-> NoFile, preRegistry |-> NoWorkspaces,
          preKey |-> NoKey]

\* The commands' files at rest, with nothing on disk.
CliIdle ==
    /\ gitFile = NoFile
    /\ gitBackups = [t \in Timestamps |-> NoFile]
    /\ wsFiles = [w \in CliWorkspaces |-> NoFile]
    /\ registry = NoWorkspaces
    /\ keys = [w \in CliWorkspaces |-> NoKey]
    /\ keygens = 0
    /\ keyBackups = [w \in CliWorkspaces |-> [t \in Timestamps |-> NoKey]]
    /\ cmd = NoCmd
    /\ inited = {}

\* No process of the race is running.
RaceIdle ==
    /\ proc = <<>>
    /\ lastRename = 0

\* No function has been called, no repository is at hand, fix and doctor
\* have not run.
NoArgs == [fn |-> "none"]
NoResult == [fn |-> "none"]
NoRepo == [exists |-> FALSE]
NoFix == [ran |-> FALSE]

ToolIdle ==
    /\ args = NoArgs
    /\ result = NoResult
    /\ gitRepo = NoRepo
    /\ fix = NoFix
    /\ issues = <<>>

(***************************************************************************)
(* The marker block editor as a state machine: one Config Document, one    *)
(* marker pair, and the operations the commands apply to it.               *)
(***************************************************************************)
\* The inputs the commands pass: one workspace, its alias and host, the key
\* path before and after a rotation, two workspace roots.
Workspaces == { <<"w">> }
Alias == <<"g","-","w">>
HostName == <<"h">>
KeyPaths == { <<"k">>, <<"r">> }
Roots == { <<"/","c">>, <<"/","d","/">> }

\* The marker pairs the callers use: one per workspace in the SSH config,
\* one shared pair in the global gitconfig.
MarkerPairs ==
    { [file |-> "ssh", start |-> StartMarker(w), end |-> EndMarker(w)] : w \in Workspaces }
        \union { [file |-> "git", start |-> IncludeIfStartMarker, end |-> IncludeIfEndMarker] }

\* The blocks the callers render for a marker pair.
Blocks(m) ==
    IF m.file = "ssh"
    THEN { SSHBlock(m.start, Alias, HostName, k, m.end) : k \in KeyPaths }
    ELSE { IncludeIfBlock(m.start, BuildIncludeIfCondition(r), GitConfigPath(w), m.end) :
             r \in Roots, w \in Workspaces }

\* Text a user wrote by hand, and a padded text as Extract's callers see it.
UserText == <<"x">>
PaddedText == <<" "," ","t"," "," ">>

RECURSIVE Concats(_, _)
\* Every concatenation of at most n pieces of P.
Concats(P, n) ==
    IF n = 0 THEN { <<>> }
    ELSE LET prev == Concats(P, n - 1)
         IN  prev \union { d \o p : d \in prev, p \in P }

NoOp == [op |-> "none", input |-> <<>>, block |-> <<>>, text |-> <<>>,
         flag |-> FALSE, panicked |-> FALSE]

\* Any document a user may have left: hand-written text and marker literals
\* in any order (orphan markers and several regions included).
InitEdit ==
    /\ markers \in MarkerPairs
    /\ content \in Concats({ UserText, markers.start, markers.end }, MaxPieces)
    /\ orig = content
    /\ last = NoOp
    /\ nops = 0
    /\ upsertsOnly = TRUE
    /\ FsIdle
    /\ CliIdle
    /\ RaceIdle
    /\ ToolIdle

InitExtract ==
    /\ markers \in MarkerPairs
    /\ content \in Concats({ UserText, PaddedText, markers.start, markers.end },
                           MaxPieces + 1)
    /\ orig = content
    /\ last = NoOp
    /\ nops = 0
    /\ upsertsOnly = TRUE
    /\ FsIdle
    /\ CliIdle
    /\ RaceIdle
    /\ ToolIdle

\* Upsert: a caller renders a block and replaces or appends it.
Upsert ==
    /\ nops < MaxOps
    /\ \E b \in Blocks(markers) :
         LET r == ReplaceBetweenMarkers(content, markers.start, markers.end, b)
         IN  /\ content' = r.text
             /\ last' = [op |-> "Upsert", input |-> content, block |-> b,
                         text |-> r.text, flag |-> r.changed, panicked |-> FALSE]
    /\ nops' = nops + 1
    /\ UNCHANGED <<orig, markers, upsertsOnly>>
    /\ UNCHANGED <<fsVars, cliVars, raceVars, toolVars>>

\* Remove: the string transform of RemoveSSHConfigBlock.
Remove ==
    /\ nops < MaxOps
    /\ LET r == RemoveBlock(content, markers.start, markers.end)
       IN  /\ content' = r.text
           /\ last' = [op |-> "Remove", input |-> content, block |-> <<>>,
                       text |-> r.text, flag |-> r.found, panicked |-> FALSE]
    /\ nops' = nops + 1
    /\ upsertsOnly' = FALSE
    /\ UNCHANGED <<orig, markers>>
    /\ UNCHANGED <<fsVars, cliVars, raceVars, toolVars>>

\* Extract: inspection only; the document is left as it is.
Extract ==
    /\ LET r == ExtractBetweenMarkers(content, markers.start, markers.end)
       IN  last' = [op |-> "Extract", input |-> content, block |-> <<>>,
                    text |-> r.text, flag |-> r.found, panicked |-> r.panicked]
    /\ UNCHANGED <<content, orig, markers, nops, upsertsOnly>>
    /\ UNCHANGED <<fsVars, cliVars, raceVars, toolVars>>

NextEdit == Upsert \/ Remove

NextExtract == Extract

SpecEdit == InitEdit /\ [][NextEdit]_vars

SpecExtract == InitExtract /\ [][NextExtract]_vars

Spec == SpecEdit

(***************************************************************************)
(* Two workspaces in one ~/.ssh/config: the block of one workspace is in   *)
(* the file (UpsertSSHConfigBlock has put it there) and the blocks of      *)
(* another workspace are upserted and removed.  A workspace name is the    *)
(* command's first argument as typed; no caller checks it.                 *)
(***************************************************************************)
PairWorkspaces == { <<"w">>, <<"v">>, <<"w"," ",">",">",">"," ","D","O"," ","N","O","T"," ","E","D","I","T">> }

\* The marker pair UpsertSSHConfigBlock and RemoveSSHConfigBlock build for a
\* workspace.
PairMarkers(w) == [file |-> "ssh", start |-> StartMarker(w), end |-> EndMarker(w)]

\* The block UpsertSSHConfigBlock has rendered for a workspace.
OtherBlock(w) == SSHBlock(StartMarker(w), Alias, HostName, <<"k">>, EndMarker(w))

InitPair ==
    /\ \E a \in PairWorkspaces, b \in PairWorkspaces, u \in { <<>>, UserText } :
          /\ a # b
          /\ markers = PairMarkers(a)
          /\ content = ReplaceBetweenMarkers(u, StartMarker(b), EndMarker(b),
                                             OtherBlock(b)).text
    /\ orig = content
    /\ last = NoOp
    /\ nops = 0
    /\ upsertsOnly = TRUE
    /\ FsIdle
    /\ CliIdle
    /\ RaceIdle
    /\ ToolIdle

SpecPair == InitPair /\ [][NextEdit]_vars

(***************************************************************************)
(* The file layer as a state machine: one command at a time runs against   *)
(* one config file, ~/.ssh/config (markers.file = "ssh") or ~/.gitconfig   *)
(* (markers.file = "git").  RemoveSSHConfigBlock, UpsertSSHConfigBlock and *)
(* updateGlobalGitConfig read the file, back it up, edit the text and hand *)
(* it to AtomicWrite; AtomicWrite is one step per file-system call.  A     *)
(* call fails where the code has an error branch for it.                   *)
(***************************************************************************)
\* The edited text at rest (the file layer's behaviours).
EditIdle ==
    /\ markers \in MarkerPairs
    /\ content = <<>>
    /\ orig = <<>>
    /\ last = NoOp
    /\ nops = 0
    /\ upsertsOnly = TRUE

\* What the config file may hold before a command: hand-written text around
\* nothing, an orphan start marker, an empty managed block or a rendered one.
ConfigTexts ==
    { a \o m \o b : a \in { <<>>, UserText }, b \in { <<>>, UserText },
                    m \in { <<>>, markers.start, markers.start \o markers.end }
                             \union Blocks(markers) }

\* What a caller hands to AtomicWrite directly (a workspace gitconfig).
DirectData == { <<"u">> }
Perms == { "0600", "0644" }

InitFs ==
    /\ EditIdle
    /\ cfgFile \in { NoFile } \union { File(d, "0600") : d \in ConfigTexts }
    /\ tmpFile = NoFile
    /\ backups = [t \in Timestamps |-> NoFile]
    /\ now = 1
    /\ pc = "idle"
    /\ call = NoCall
    /\ ret = NoRet
    /\ ncalls = 0
    /\ CliIdle
    /\ RaceIdle
    /\ ToolIdle

\* CreateBackup that returns nil without copying the file.
CreateBackup_SkipsCopy(f, bk, t) == { [err |-> "nil", backups |-> bk] }

\* CreateBackup(path) at second t: the error it returns and the backup
\* files afterwards.  os.WriteFile creates or truncates path.bak.<t> and
\* then writes; when the write fails the file is left cut short (shown
\* empty).
CreateBackup(f, bk, t) ==
    IF ~FileExists(f)
    THEN { [err |-> "nil", backups |-> bk] }
    ELSE { [err |-> "nil", backups |-> [bk EXCEPT ![t] = File(f.data, "0644")]],
           [err |-> "failed to read file for backup", backups |-> bk],
           [err |-> "failed to create backup", backups |-> bk],
           [err |-> "failed to create backup",
            backups |-> [bk EXCEPT ![t] = File(<<>>, "0644")]] }

\* A command returns before it reaches AtomicWrite.
ReturnEarly(fn, err) ==
    /\ ret' = [fn |-> fn, err |-> err, cause |-> "none", outcome |-> "NoWrite"]
    /\ call' = [fn |-> fn, data |-> <<>>, perm |-> "none", pre |-> cfgFile,
                preBackups |-> backups]
    /\ pc' = "idle"
    /\ UNCHANGED <<cfgFile, tmpFile>>

\* A command calls AtomicWrite(configPath, data, perm).
EnterAtomicWrite(fn, data, perm) ==
    /\ call' = [fn |-> fn, data |-> data, perm |-> perm, pre |-> cfgFile,
                preBackups |-> backups]
    /\ pc' = "Start"
    /\ UNCHANGED <<cfgFile, tmpFile, ret>>

\* UpsertSSHConfigBlock(workspaceName, alias, hostName, keyPath).
CallUpsertSSHConfigBlock ==
    /\ markers.file = "ssh"
    /\ pc = "idle"
    /\ ncalls < MaxCalls
    /\ ncalls' = ncalls + 1
    /\ \/ \E k \in KeyPaths, t \in now..MaxClock :
            \E b \in CreateBackup(cfgFile, backups, t) :
              /\ now' = t
              /\ backups' = b.backups
              /\ IF b.err # "nil"
                 THEN ReturnEarly("UpsertSSHConfigBlock", "failed to create backup")
                 ELSE LET text == IF FileExists(cfgFile) THEN cfgFile.data ELSE <<>>
                          newBlock == SSHBlock(markers.start, Alias, HostName, k,
                                               markers.end)
                          newContent == ReplaceBetweenMarkers(text, markers.start,
                                                              markers.end, newBlock).text
                      IN  EnterAtomicWrite("UpsertSSHConfigBlock", newContent, "0644")
       \/ /\ FileExists(cfgFile)
          /\ ReturnEarly("UpsertSSHConfigBlock", "failed to read SSH config")
          /\ UNCHANGED <<backups, now>>
       \/ /\ ReturnEarly("UpsertSSHConfigBlock", "failed to get home directory")
          /\ UNCHANGED <<backups, now>>
    /\ UNCHANGED <<editVars, cliVars, raceVars, toolVars>>

\* RemoveSSHConfigBlock(workspaceName).
CallRemoveSSHConfigBlock ==
    /\ markers.file = "ssh"
    /\ pc = "idle"
    /\ ncalls < MaxCalls
    /\ ncalls' = ncalls + 1
    /\ \/ /\ ~FileExists(cfgFile)
          /\ ReturnEarly("RemoveSSHConfigBlock", "nil")
          /\ UNCHANGED <<backups, now>>
       \/ /\ FileExists(cfgFile)
          /\ \E t \in now..MaxClock :
               \E b \in CreateBackup(cfgFile, backups, t) :
                 /\ now' = t
                 /\ backups' = b.backups
                 /\ LET r == RemoveBlock(cfgFile.data, markers.start, markers.end)
                    IN  IF b.err # "nil"
                        THEN ReturnEarly("RemoveSSHConfigBlock", "failed to create backup")
                        ELSE IF ~r.found
                        THEN ReturnEarly("RemoveSSHConfigBlock", "nil")
                        ELSE EnterAtomicWrite("RemoveSSHConfigBlock", r.text, "0644")
       \/ /\ FileExists(cfgFile)
          /\ ReturnEarly("RemoveSSHConfigBlock", "failed to read SSH config")
          /\ UNCHANGED <<backups, now>>
       \/ /\ ReturnEarly("RemoveSSHConfigBlock", "failed to get home directory")
          /\ UNCHANGED <<backups, now>>
    /\ UNCHANGED <<editVars, cliVars, raceVars, toolVars>>

\* updateGlobalGitConfig(workspaceName, root); the root reaches it expanded,
\* so BuildIncludeIfCondition has no "~/" to expand and cannot fail.
CallUpdateGlobalGitConfig ==
    /\ markers.file = "git"
    /\ pc = "idle"
    /\ ncalls < MaxCalls
    /\ ncalls' = ncalls + 1
    /\ \/ \E w \in Workspaces, r \in Roots, t \in now..MaxClock :
            \E b \in CreateBackup(cfgFile, backups, t) :
              /\ now' = t
              /\ backups' = b.backups
              /\ IF b.err # "nil"
                 THEN ReturnEarly("updateGlobalGitConfig", "failed to create backup")
                 ELSE LET text == IF FileExists(cfgFile) THEN cfgFile.data ELSE <<>>
                          newBlock == IncludeIfBlock(markers.start,
                                                     BuildIncludeIfCondition(r),
                                                     GitConfigPath(w), markers.end)
                          newContent == ReplaceBetweenMarkers(text, markers.start,
                                                              markers.end, newBlock).text
                      IN  EnterAtomicWrite("updateGlobalGitConfig", newContent, "0644")
       \/ /\ FileExists(cfgFile)
          /\ ReturnEarly("updateGlobalGitConfig", "failed to read gitconfig")
          /\ UNCHANGED <<backups, now>>
       \/ /\ ReturnEarly("updateGlobalGitConfig", "failed to get home directory")
          /\ UNCHANGED <<backups, now>>
    /\ UNCHANGED <<editVars, cliVars, raceVars, toolVars>>

\* fsutil.CreateBackup(path) called on its own.
CallCreateBackup ==
    /\ pc = "idle"
    /\ ncalls < MaxCalls
    /\ ncalls' = ncalls + 1
    /\ \E t \in now..MaxClock :
         \E b \in CreateBackup(cfgFile, backups, t) :
           /\ now' = t
           /\ backups' = b.backups
           /\ ReturnEarly("CreateBackup", b.err)
    /\ UNCHANGED <<editVars, cliVars, raceVars, toolVars>>

\* AtomicWrite(path, data, perm) called by any other caller.
CallAtomicWrite ==
    /\ pc = "idle"
    /\ ncalls < MaxCalls
    /\ ncalls' = ncalls + 1
    /\ \E d \in DirectData, p \in Perms : EnterAtomicWrite("AtomicWrite", d, p)
    /\ UNCHANGED <<backups, now>>
    /\ UNCHANGED <<editVars, cliVars, raceVars, toolVars>>

\* The error the command returns when AtomicWrite returns err.
Wrapped(fn, err) ==
    IF fn = "AtomicWrite" THEN err
    ELSE IF fn = "updateGlobalGitConfig" THEN "failed to write gitconfig"
    ELSE "failed to write SSH config"

\* AtomicWrite returns err after the step named cause failed: the deferred
\* os.Remove runs, the target is not touched.
Abort(cause, err) ==
    /\ tmpFile' = RemoveFile(tmpFile)
    /\ ret' = [fn |-> call.fn, err |-> Wrapped(call.fn, err), cause |-> cause,
               outcome |-> "Aborted"]
    /\ pc' = "idle"
    /\ UNCHANGED cfgFile

\* os.CreateTemp(dir, base+".tmp"); on failure no defer is registered yet.
AW_CreateTemp ==
    /\ pc = "Start"
    /\ \/ /\ tmpFile' = CreateTemp
          /\ pc' = "Created"
          /\ UNCHANGED <<cfgFile, ret>>
       \/ /\ ret' = [fn |-> call.fn,
                     err |-> Wrapped(call.fn, "failed to create temp file"),
                     cause |-> "CreateTemp", outcome |-> "Aborted"]
          /\ pc' = "idle"
          /\ UNCHANGED <<cfgFile, tmpFile>>
    /\ UNCHANGED <<backups, now, call, ncalls>>
    /\ UNCHANGED <<editVars, cliVars, raceVars, toolVars>>

\* tmpFile.Write(data).
AW_Write ==
    /\ pc = "Created"
    /\ \/ /\ tmpFile' = WriteData(tmpFile, call.data)
          /\ pc' = "Written"
          /\ UNCHANGED <<cfgFile, ret>>
       \/ Abort("Write", "failed to write to temp file")
    /\ UNCHANGED <<backups, now, call, ncalls>>
    /\ UNCHANGED <<editVars, cliVars, raceVars, toolVars>>

\* A Chmod step that renames the temporary file onto the target at once.
AW_Chmod_Renames ==
    /\ pc = "Written"
    /\ cfgFile' = Rename(tmpFile, cfgFile)
    /\ tmpFile' = NoFile
    /\ ret' = [fn |-> call.fn, err |-> "nil", cause |-> "none", outcome |-> "Renamed"]
    /\ pc' = "idle"
    /\ UNCHANGED <<backups, now, call, ncalls>>
    /\ UNCHANGED <<editVars, cliVars, raceVars, toolVars>>

\* tmpFile.Chmod(perm).
AW_Chmod ==
    /\ pc = "Written"
    /\ \/ /\ tmpFile' = Chmod(tmpFile, call.perm)
          /\ pc' = "PermissionsSet"
          /\ UNCHANGED <<cfgFile, ret>>
       \/ Abort("Chmod", "failed to set temp file permissions")
    /\ UNCHANGED <<backups, now, call, ncalls>>
    /\ UNCHANGED <<editVars, cliVars, raceVars, toolVars>>

\* tmpFile.Close().
AW_Close ==
    /\ pc = "PermissionsSet"
    /\ \/ /\ pc' = "Closed"
          /\ UNCHANGED <<cfgFile, tmpFile, ret>>
       \/ Abort("Close", "failed to close temp file")
    /\ UNCHANGED <<backups, now, call, ncalls>>
    /\ UNCHANGED <<editVars, cliVars, raceVars, toolVars>>

\* os.Rename(tmpFile.Name(), path), then return nil; the deferred os.Remove
\* finds the temporary name gone.
AW_Rename ==
    /\ pc = "Closed"
    /\ \/ /\ cfgFile' = Rename(tmpFile, cfgFile)
          /\ tmpFile' = RemoveFile(NoFile)
          /\ ret' = [fn |-> call.fn, err |-> "nil", cause |-> "none",
                     outcome |-> "Renamed"]
          /\ pc' = "idle"
       \/ Abort("Rename", "failed to rename temp file")
    /\ UNCHANGED <<backups, now, call, ncalls>>
    /\ UNCHANGED <<editVars, cliVars, raceVars, toolVars>>

NextFs ==
    \/ CallCreateBackup
    \/ CallUpsertSSHConfigBlock
    \/ CallRemoveSSHConfigBlock
    \/ CallUpdateGlobalGitConfig
    \/ CallAtomicWrite
    \/ AW_CreateTemp
    \/ AW_Write
    \/ AW_Chmod
    \/ AW_Close
    \/ AW_Rename

SpecFs == InitFs /\ [][NextFs]_vars

(***************************************************************************)
(* The commands as a state machine: init and rotate run one at a time      *)
(* against the files under the home directory.  cfgFile is ~/.ssh/config   *)
(* and backups its backup files.  A command is one step; an I/O call of it *)
(* fails where the code has an error branch for it, and AtomicWrite either *)
(* replaces its target or leaves it as it was.                             *)
(***************************************************************************)
\* The flags init is run with.
InitHost == <<"g","i","t","h","u","b">>
InitEmail == <<"e">>
InitName == <<"n">>
InitRoots == { <<>>, <<"/","r">> }
InitSignings == { <<"s","s","h">> }

\* --force and --rotate-key as they are given together.
InitFlags ==
    { [force |-> FALSE, rotateKey |-> FALSE], [force |-> TRUE, rotateKey |-> FALSE],
      [force |-> TRUE, rotateKey |-> TRUE] }

ProviderHosts ==
    (<<"g","i","t","h","u","b">> :> <<"g","i","t","h","u","b",".","c","o","m">>)
        @@ (<<"g","i","t","l","a","b">> :> <<"g","i","t","l","a","b",".","c","o","m">>)
        @@ (<<"b","i","t","b","u","c","k","e","t">> :> <<"b","i","t","b","u","c","k","e","t",".","o","r","g">>)

UpperCase == <<"A","B","C","D","E","F","G","H","I","J","K","L","M","N","O","P","Q","R","S","T","U","V","W","X","Y","Z">>
LowerCase == <<"a","b","c","d","e","f","g","h","i","j","k","l","m","n","o","p","q","r","s","t","u","v","w","x","y","z">>
Digits == <<"0","1","2","3","4","5","6","7","8","9">>

\* strings.ToLower.
ToLower(s) ==
    [i \in 1..Len(s) |->
        IF \E k \in 1..Len(UpperCase) : UpperCase[k] = s[i]
        THEN LowerCase[CHOOSE k \in 1..Len(UpperCase) : UpperCase[k] = s[i]]
        ELSE s[i]]

\* regexp `[^a-z0-9-]` replaced by "-".
ReplaceNonAlnum(s) ==
    [i \in 1..Len(s) |->
        IF \E k \in 1..Len(LowerCase) : LowerCase[k] = s[i] THEN s[i]
        ELSE IF \E k \in 1..Len(Digits) : Digits[k] = s[i] THEN s[i]
        ELSE "-"]

RECURSIVE CollapseDashes(_)
\* regexp `-+` replaced by "-".
CollapseDashes(s) ==
    IF Len(s) < 2 THEN s
    ELSE IF s[1] = "-" /\ s[2] = "-" THEN CollapseDashes(Tail(s))
    ELSE <<s[1]>> \o CollapseDashes(Tail(s))

\* strings.Trim(s, "-").
TrimDashes(s) ==
    LET keep == { i \in 1..Len(s) : s[i] # "-" }
    IN  IF keep = {} THEN <<>>
        ELSE SubSeq(s, CHOOSE i \in keep : \A j \in keep : i <= j,
                       CHOOSE i \in keep : \A j \in keep : i >= j)

\* strings.TrimSuffix(s, "-").
TrimSuffixDash(s) ==
    IF Len(s) > 0 /\ s[Len(s)] = "-" THEN SubSeq(s, 1, Len(s) - 1) ELSE s

\* BuildSSHAlias(providerOrHost, workspace).
BuildSSHAlias(providerOrHost, workspace) ==
    LET host == IF providerOrHost \in DOMAIN ProviderHosts
                THEN ProviderHosts[providerOrHost] ELSE providerOrHost
        alias == TrimDashes(CollapseDashes(ReplaceNonAlnum(ToLower(
                     host \o <<"-">> \o workspace))))
    IN  IF len(alias) > 63 THEN TrimSuffixDash(Slice(alias, 0, 63)) ELSE alias

\* The alias runInit builds for each workspace.
Aliases == [w \in CliWorkspaces |-> BuildSSHAlias(InitHost, w)]

\* DefaultRoot(workspace): ~/code/<workspace>.
DefaultRoot(workspace) == Home \o <<"/","c","o","d","e","/">> \o workspace

\* EnsureKey's privPath: ~/.ssh/id_ed25519_gws_<workspace>.
PrivPath(workspaceName) == Home \o <<"/",".","s","s","h","/","i","d","_","e","d","2","5","5","1","9","_","g","w","s","_">> \o workspaceName

\* The text createWorkspaceGitConfig builds.
WorkspaceGitConfig(displayName, email, signing, keyPath, gpgKey) ==
    <<"[","u","s","e","r","]","\n"," "," ","n","a","m","e"," ","="," ">> \o displayName \o <<"\n"," "," ","e","m","a","i","l"," ","="," ">> \o email
        \o <<"\n","\n","[","c","o","m","m","i","t","]","\n"," "," ","g","p","g","s","i","g","n"," ","="," ","f","a","l","s","e","\n","\n">>
        \o (IF signing = <<"s","s","h">>
            THEN <<"[","g","p","g","]","\n"," "," ","f","o","r","m","a","t"," ","="," ","s","s","h","\n","\n","[","u","s","e","r","]","\n"," "," ","s","i","g","n","i","n","g","k","e","y"," ","="," ">> \o keyPath
                     \o <<".","p","u","b","\n","\n","[","c","o","m","m","i","t","]","\n"," "," ","g","p","g","s","i","g","n"," ","="," ","t","r","u","e","\n","\n">>
            ELSE IF signing = <<"g","p","g">>
            THEN <<"[","u","s","e","r","]","\n"," "," ","s","i","g","n","i","n","g","k","e","y"," ","="," ">> \o gpgKey
                     \o <<"\n","\n","[","c","o","m","m","i","t","]","\n"," "," ","g","p","g","s","i","g","n"," ","="," ","t","r","u","e","\n","\n">>
            ELSE <<>>)

\* GetWorkspace that finds no workspace.
GetWorkspace_NeverFinds(cfg, name) == FALSE

\* cfg.GetWorkspace(name): exists.
GetWorkspace(cfg, name) == name \in DOMAIN cfg

\* cfg.SetWorkspace(name, ws).
SetWorkspace(cfg, name, ws) ==
    [w \in DOMAIN cfg \union { name } |-> IF w = name THEN ws ELSE cfg[w]]

InitCli ==
    /\ EditIdle
    /\ markers.file = "git"
    /\ \E f \in { NoFile, File(UserText, "0600") } : cfgFile = f /\ gitFile = f
    /\ tmpFile = NoFile
    /\ backups = [t \in Timestamps |-> NoFile]
    /\ now = 1
    /\ pc = "idle"
    /\ call = NoCall
    /\ ret = NoRet
    /\ ncalls = 0
    /\ gitBackups = [t \in Timestamps |-> NoFile]
    /\ wsFiles = [w \in CliWorkspaces |-> NoFile]
    /\ registry = NoWorkspaces
    /\ keys = [w \in CliWorkspaces |-> NoKey]
    /\ keygens = 0
    /\ keyBackups = [w \in CliWorkspaces |-> [t \in Timestamps |-> NoKey]]
    /\ cmd = NoCmd
    /\ inited = {}
    /\ RaceIdle
    /\ ToolIdle

\* The I/O calls of a command that can fail, named by the error returned.
Failures ==
    { "none", "failed to load config", "failed to generate SSH key",
      "failed to set key permissions", "failed to read SSH config",
      "failed to write SSH config", "failed to read gitconfig",
      "failed to write gitconfig", "failed to write workspace gitconfig",
      "failed to write config file", "failed to read public key",
      "failed to backup private key", "failed to back up SSH config",
      "failed to back up gitconfig" }

\* The outcomes of CreateBackup when the call fails (failed) or returns nil.
BackupOutcomes(f, bk, t, failed) ==
    { b \in CreateBackup(f, bk, t) : (b.err # "nil") <=> failed }

\* A cut-short registry file is an outcome of the failed registry write only.
CutShorts(fail) == IF fail = "failed to write config file" THEN BOOLEAN ELSE { FALSE }

\* What a command works on: the files, the loaded config, the files it has
\* written so far, and the error it returns (steps after the one that
\* failed are not run).
World ==
    [err |-> "nil", created |-> FALSE, wrote |-> {}, ssh |-> cfgFile, sshBackups |-> backups,
     git |-> gitFile, gitBackups |-> gitBackups, ws |-> wsFiles,
     cfg |-> registry, registry |-> registry, keys |-> keys,
     keygens |-> keygens, keyBackups |-> keyBackups]

\* AtomicWrite that writes into the target itself: a failed call leaves the
\* target cut short.
AtomicWrite_WritesInPlace(f, data, perm, fails) ==
    IF fails THEN File(SubSeq(data, 1, 1), perm) ELSE File(data, perm)

\* AtomicWrite(path, data, perm) as one step: the target replaced, or an
\* error and the target as it was.
AtomicWrite(f, data, perm, fails) == IF fails THEN f ELSE File(data, perm)

\* config.Load().
Load(s, fail) ==
    IF fail = "failed to load config" THEN [s EXCEPT !.err = fail] ELSE s

\* ssh-keygen: every run makes a key that did not exist before.
KeyGen(s) == s.keygens + 1

\* ssh.EnsureKey(workspaceName, email): the key at privPath is returned as
\* it is when the file exists, and generated otherwise.
EnsureKey(s, workspaceName, fail) ==
    IF s.err # "nil" THEN s
    ELSE IF s.keys[workspaceName] # NoKey THEN [s EXCEPT !.created = FALSE]
    ELSE IF fail = "failed to generate SSH key" THEN [s EXCEPT !.err = fail]
    ELSE [s EXCEPT !.keys[workspaceName] = KeyGen(s), !.keygens = KeyGen(s),
                   !.created = TRUE,
                   !.err = IF fail = "failed to set key permissions"
                           THEN fail ELSE "nil"]

\* ssh.UpsertSSHConfigBlock(workspaceName, alias, hostName, keyPath) with
\* the backup outcome b.
UpsertSSHConfigBlock(s, workspaceName, alias, hostName, keyPath, fail, b) ==
    IF s.err # "nil" THEN s
    ELSE IF FileExists(s.ssh) /\ fail = "failed to read SSH config"
    THEN [s EXCEPT !.err = fail]
    ELSE IF b.err # "nil"
    THEN [s EXCEPT !.err = "failed to create backup", !.sshBackups = b.backups]
    ELSE LET text == IF FileExists(s.ssh) THEN s.ssh.data ELSE <<>>
             newBlock == SSHBlock(StartMarker(workspaceName), alias, hostName,
                                  keyPath, EndMarker(workspaceName))
             newContent == ReplaceBetweenMarkers(text, StartMarker(workspaceName),
                                                 EndMarker(workspaceName), newBlock).text
             fails == fail = "failed to write SSH config"
         IN  [s EXCEPT !.sshBackups = b.backups,
                       !.ssh = AtomicWrite(s.ssh, newContent, "0644", fails),
                       !.wrote = IF fails THEN @ ELSE @ \union { "SSH config" },
                       !.err = IF fails THEN fail ELSE "nil"]

\* updateGlobalGitConfig(workspaceName, root) with the backup outcome b.
updateGlobalGitConfig(s, workspaceName, root, fail, b) ==
    IF s.err # "nil" THEN s
    ELSE IF FileExists(s.git) /\ fail = "failed to read gitconfig"
    THEN [s EXCEPT !.err = fail]
    ELSE IF b.err # "nil"
    THEN [s EXCEPT !.err = "failed to create backup", !.gitBackups = b.backups]
    ELSE LET text == IF FileExists(s.git) THEN s.git.data ELSE <<>>
             newBlock == IncludeIfBlock(IncludeIfStartMarker,
                                        BuildIncludeIfCondition(root),
                                        GitConfigPath(workspaceName),
                                        IncludeIfEndMarker)
             newContent == ReplaceBetweenMarkers(text, IncludeIfStartMarker,
                                                 IncludeIfEndMarker, newBlock).text
             fails == fail = "failed to write gitconfig"
         IN  [s EXCEPT !.gitBackups = b.backups,
                       !.git = AtomicWrite(s.git, newContent, "0644", fails),
                       !.wrote = IF fails THEN @ ELSE @ \union { "gitconfig" },
                       !.err = IF fails THEN fail ELSE "nil"]

\* createWorkspaceGitConfig whose failed write is not reported.
createWorkspaceGitConfig_IgnoresError(s, workspaceName, displayName, email, signing, keyPath, gpgKey, fail) ==
    IF s.err # "nil" THEN s
    ELSE LET fails == fail = "failed to write workspace gitconfig"
             text == WorkspaceGitConfig(displayName, email, signing, keyPath, gpgKey)
         IN  [s EXCEPT !.ws[workspaceName] =
                           AtomicWrite(s.ws[workspaceName], text, "0644", fails)]

\* createWorkspaceGitConfig(workspaceName, displayName, email, signing,
\* keyPath, gpgKey).
createWorkspaceGitConfig(s, workspaceName, displayName, email, signing, keyPath, gpgKey, fail) ==
    IF s.err # "nil" THEN s
    ELSE LET fails == fail = "failed to write workspace gitconfig"
             text == WorkspaceGitConfig(displayName, email, signing, keyPath, gpgKey)
         IN  [s EXCEPT !.ws[workspaceName] =
                           AtomicWrite(s.ws[workspaceName], text, "0644", fails),
                       !.wrote = IF fails THEN @ ELSE @ \union { "workspace gitconfig" },
                       !.err = IF fails THEN fail ELSE "nil"]

\* cfg.SetWorkspace(name, ws) and cfg.Save(): os.WriteFile truncates the
\* registry file and writes it; a failed write leaves it as it was (the open
\* failed) or cut short (shown empty: no workspace).
Save(s, name, ws, fail, cutShort) ==
    IF s.err # "nil" THEN s
    ELSE IF fail = "failed to write config file"
    THEN [s EXCEPT !.err = fail,
                   !.registry = IF cutShort THEN NoWorkspaces ELSE s.registry]
    ELSE [s EXCEPT !.cfg = SetWorkspace(s.cfg, name, ws),
                   !.registry = SetWorkspace(s.cfg, name, ws),
                   !.wrote = @ \union { "registry" }]

\* ssh.GetPublicKey(pubPath).
GetPublicKey(s, fail) ==
    IF s.err # "nil" THEN s
    ELSE IF fail = "failed to read public key" THEN [s EXCEPT !.err = fail]
    ELSE s

\* A command returns err, having stopped at the first step that failed.
Fail(s, err) == IF s.err # "nil" THEN s ELSE [s EXCEPT !.err = err]

\* runInit(workspaceName) with its flags; the steps in the order of the code.
runInit(workspaceName, initRoot, initSigning, initForce, initRotateKey, fail, cutShort, sb, gb) ==
    LET hostName == ProviderHosts[InitHost]
        alias == Aliases[workspaceName]
        root == IF initRoot = <<>> THEN DefaultRoot(workspaceName) ELSE initRoot
        privPath == PrivPath(workspaceName)
        ws == [Email |-> InitEmail, Provider |-> InitHost, HostName |-> hostName,
               SSHAlias |-> alias, SSHKey |-> privPath, Root |-> root,
               Signing |-> initSigning, Name |-> InitName]
        s1 == Load(World, fail)
        s2 == IF GetWorkspace(s1.cfg, workspaceName) /\ ~initForce
              THEN Fail(s1, "already exists") ELSE s1
        s3 == EnsureKey(s2, workspaceName, fail)
        s4 == IF initRotateKey /\ ~s3.created
              THEN Fail(s3, "key rotation not yet implemented") ELSE s3
        s5 == UpsertSSHConfigBlock(s4, workspaceName, alias, hostName, privPath,
                                   fail, sb)
        s6 == updateGlobalGitConfig(s5, workspaceName, root, fail, gb)
        s7 == createWorkspaceGitConfig(s6, workspaceName, InitName, InitEmail,
                                       initSigning, privPath, <<>>, fail)
        s8 == Save(s7, workspaceName, ws, fail, cutShort)
    IN  GetPublicKey(s8, fail)

\* backupExistingKey(keyPath): the key copied to keyPath.old-<timestamp>.
backupExistingKey(s, workspaceName, t, fail) ==
    IF s.err # "nil" THEN s
    ELSE IF s.keys[workspaceName] = NoKey THEN s
    ELSE IF fail = "failed to backup private key" THEN [s EXCEPT !.err = fail]
    ELSE [s EXCEPT !.keyBackups[workspaceName][t] = s.keys[workspaceName]]

\* runRotate(workspaceName); confirmed is the answer to the prompt.
runRotate(workspaceName, confirmed, fail, cutShort, t, sb) ==
    LET s1 == Load(World, fail)
        s2 == IF ~GetWorkspace(s1.cfg, workspaceName)
              THEN Fail(s1, "workspace not found") ELSE s1
        ws == s1.cfg[workspaceName]
        s3 == backupExistingKey(s2, workspaceName, t, fail)
        s4 == EnsureKey(s3, workspaceName, fail)
        s5 == UpsertSSHConfigBlock(s4, workspaceName, ws.SSHAlias, ws.HostName,
                                   PrivPath(workspaceName), fail, sb)
        s6 == Save(s5, workspaceName, [ws EXCEPT !.SSHKey = PrivPath(workspaceName)],
                   fail, cutShort)
    IN  IF s2.err # "nil" \/ ~confirmed THEN s2 ELSE GetPublicKey(s6, fail)

\* The files after a command that ended in the world s.
Commit(s) ==
    /\ cfgFile' = s.ssh
    /\ backups' = s.sshBackups
    /\ gitFile' = s.git
    /\ gitBackups' = s.gitBackups
    /\ wsFiles' = s.ws
    /\ registry' = s.registry
    /\ keys' = s.keys
    /\ keygens' = s.keygens
    /\ keyBackups' = s.keyBackups

\* The record of the command that has just run.
Ran(name, workspaceName, s, confirmed, force) ==
    cmd' = [name |-> name, ws |-> workspaceName, err |-> s.err,
            confirmed |-> confirmed, force |-> force, wrote |-> s.wrote, preSSH |-> cfgFile, preGit |-> gitFile,
            preRegistry |-> registry, preKey |-> keys[workspaceName]]

\* time.Now() as a command sees it: the commands of one behaviour run within
\* one clock second (the clock is let run in the file layer's behaviours).
TimesOfCommand == { now }

\* gitws init <workspace> --host github --email e ...
CmdInit ==
    /\ ncalls < MaxCalls
    /\ ncalls' = ncalls + 1
    /\ \E w \in CliWorkspaces, r \in InitRoots, g \in InitSignings,
          flags \in InitFlags, fail \in Failures, t \in TimesOfCommand :
         \E cutShort \in CutShorts(fail),
            sb \in BackupOutcomes(cfgFile, backups, t,
                                  fail = "failed to back up SSH config"),
            gb \in BackupOutcomes(gitFile, gitBackups, t,
                                  fail = "failed to back up gitconfig") :
           LET s == runInit(w, r, g, flags.force, flags.rotateKey, fail, cutShort,
                            sb, gb)
           IN  /\ Commit(s)
               /\ Ran("init", w, s, TRUE, flags.force)
               /\ inited' = IF s.err = "nil" THEN inited \union { w } ELSE inited
               /\ now' = t
    /\ UNCHANGED <<tmpFile, pc, call, ret>>
    /\ UNCHANGED <<editVars, raceVars, toolVars>>

\* gitws rotate <workspace>; the prompt is answered yes or no.
CmdRotate ==
    /\ ncalls < MaxCalls
    /\ ncalls' = ncalls + 1
    /\ \E w \in CliWorkspaces, confirmed \in BOOLEAN, fail \in Failures,
          t \in TimesOfCommand :
         \E cutShort \in CutShorts(fail),
            sb \in BackupOutcomes(cfgFile, backups, t,
                                  fail = "failed to back up SSH config") :
           LET s == runRotate(w, confirmed, fail, cutShort, t, sb)
           IN  /\ Commit(s)
               /\ Ran("rotate", w, s, confirmed, FALSE)
               /\ now' = t
    /\ UNCHANGED <<tmpFile, pc, call, ret, inited>>
    /\ UNCHANGED <<editVars, raceVars, toolVars>>

NextCli == CmdInit \/ CmdRotate

SpecCli == InitCli /\ [][NextCli]_vars

(***************************************************************************)
(* Two invocations of UpsertSSHConfigBlock, for two workspaces, running    *)
(* concurrently against one ~/.ssh/config (cfgFile, backups).  Each goes   *)
(* through the file-system calls of the code one at a time; there is no    *)
(* lock.  Each has a temporary file of its own (os.CreateTemp picks a     *)
(* fresh name).                                                            *)
(***************************************************************************)
Procs == { 1, 2 }

\* The workspace each invocation was started for.
RaceWorkspace(p) == IF p = 1 THEN <<"a">> ELSE <<"b">>

\* The Host block an invocation renders.
RaceBlock(p) ==
    SSHBlock(StartMarker(RaceWorkspace(p)), Aliases[RaceWorkspace(p)],
             ProviderHosts[InitHost], PrivPath(RaceWorkspace(p)),
             EndMarker(RaceWorkspace(p)))

NewProc == [pc |-> "Start", content |-> <<>>, newContent |-> <<>>,
            tmp |-> NoFile, err |-> "none"]

InitRace ==
    /\ EditIdle
    /\ markers.file = "ssh"
    /\ cfgFile \in { NoFile, File(<<>>, "0600"), File(UserText, "0600") }
    /\ tmpFile = NoFile
    /\ backups = [t \in Timestamps |-> NoFile]
    /\ now = 1
    /\ pc = "idle"
    /\ call = NoCall
    /\ ret = NoRet
    /\ ncalls = 0
    /\ CliIdle
    /\ proc = [p \in Procs |-> NewProc]
    /\ lastRename = 0
    /\ ToolIdle

\* Invocation p returns err; its deferred os.Remove has run.
RaceReturn(p, err) ==
    proc' = [proc EXCEPT ![p].pc = "Done", ![p].err = err, ![p].tmp = RemoveFile(@)]

\* fsutil.FileExists(configPath) and os.ReadFile(configPath).
R_Read(p) ==
    /\ proc[p].pc = "Start"
    /\ \/ proc' = [proc EXCEPT ![p].pc = "Read",
                               ![p].content = IF FileExists(cfgFile)
                                              THEN cfgFile.data ELSE <<>>]
       \/ /\ FileExists(cfgFile)
          /\ proc' = [proc EXCEPT ![p].pc = "Done",
                                  ![p].err = "failed to read SSH config"]
    /\ UNCHANGED <<cfgFile, backups, now, lastRename>>

\* fsutil.CreateBackup(configPath), then the new content is computed from
\* the text read before.
R_Backup(p) ==
    /\ proc[p].pc = "Read"
    /\ \E t \in now..MaxClock :
         \E b \in CreateBackup(cfgFile, backups, t) :
           /\ now' = t
           /\ backups' = b.backups
           /\ proc' = IF b.err # "nil"
                      THEN [proc EXCEPT ![p].pc = "Done",
                                        ![p].err = "failed to create backup"]
                      ELSE [proc EXCEPT ![p].pc = "BackedUp",
                                        ![p].newContent =
                                            ReplaceBetweenMarkers(
                                                proc[p].content,
                                                StartMarker(RaceWorkspace(p)),
                                                EndMarker(RaceWorkspace(p)),
                                                RaceBlock(p)).text]
    /\ UNCHANGED <<cfgFile, lastRename>>

\* os.CreateTemp.
R_CreateTemp(p) ==
    /\ proc[p].pc = "BackedUp"
    /\ \/ proc' = [proc EXCEPT ![p].pc = "Created", ![p].tmp = CreateTemp]
       \/ proc' = [proc EXCEPT ![p].pc = "Done",
                               ![p].err = "failed to write SSH config"]
    /\ UNCHANGED <<cfgFile, backups, now, lastRename>>

\* tmpFile.Write(data).
R_Write(p) ==
    /\ proc[p].pc = "Created"
    /\ \/ proc' = [proc EXCEPT ![p].pc = "Written",
                               ![p].tmp = WriteData(@, proc[p].newContent)]
       \/ RaceReturn(p, "failed to write SSH config")
    /\ UNCHANGED <<cfgFile, backups, now, lastRename>>

\* tmpFile.Chmod(perm).
R_Chmod(p) ==
    /\ proc[p].pc = "Written"
    /\ \/ proc' = [proc EXCEPT ![p].pc = "PermissionsSet",
                               ![p].tmp = Chmod(@, "0644")]
       \/ RaceReturn(p, "failed to write SSH config")
    /\ UNCHANGED <<cfgFile, backups, now, lastRename>>

\* tmpFile.Close().
R_Close(p) ==
    /\ proc[p].pc = "PermissionsSet"
    /\ \/ proc' = [proc EXCEPT ![p].pc = "Closed"]
       \/ RaceReturn(p, "failed to write SSH config")
    /\ UNCHANGED <<cfgFile, backups, now, lastRename>>

\* os.Rename(tmpFile.Name(), configPath).
R_Rename(p) ==
    /\ proc[p].pc = "Closed"
    /\ \/ /\ cfgFile' = Rename(proc[p].tmp, cfgFile)
          /\ lastRename' = p
          /\ proc' = [proc EXCEPT ![p].pc = "Done", ![p].err = "nil",
                                  ![p].tmp = RemoveFile(NoFile)]
       \/ /\ RaceReturn(p, "failed to write SSH config")
          /\ UNCHANGED <<cfgFile, lastRename>>
    /\ UNCHANGED <<backups, now>>

\* What no step of an invocation touches.
RaceFrame ==
    /\ UNCHANGED <<tmpFile, pc, call, ret, ncalls>>
    /\ UNCHANGED <<editVars, cliVars, toolVars>>

NextRace ==
    \/ \E p \in Procs : R_Read(p) /\ RaceFrame
    \/ \E p \in Procs : R_Backup(p) /\ RaceFrame
    \/ \E p \in Procs : R_CreateTemp(p) /\ RaceFrame
    \/ \E p \in Procs : R_Write(p) /\ RaceFrame
    \/ \E p \in Procs : R_Chmod(p) /\ RaceFrame
    \/ \E p \in Procs : R_Close(p) /\ RaceFrame
    \/ \E p \in Procs : R_Rename(p) /\ RaceFrame

SpecRace == InitRace /\ [][NextRace]_vars

(***************************************************************************)
(* internal/rewrite: RewriteURL as a function of its input, with the       *)
(* library calls it makes (regexp, net/url, strings) computed as they      *)
(* compute.                                                                *)
(***************************************************************************)
Letters == { LowerCase[k] : k \in 1..Len(LowerCase) } \union { UpperCase[k] : k \in 1..Len(UpperCase) }
DigitChars == { Digits[k] : k \in 1..Len(Digits) }

\* strings.HasPrefix, strings.HasSuffix, strings.TrimPrefix, strings.TrimSuffix.
HasPrefix(s, prefix) == Len(prefix) <= Len(s) /\ SubSeq(s, 1, Len(prefix)) = prefix
HasSuffix(s, suffix) ==
    Len(suffix) <= Len(s) /\ SubSeq(s, Len(s) - Len(suffix) + 1, Len(s)) = suffix
TrimPrefix(s, prefix) == IF HasPrefix(s, prefix) THEN Slice(s, Len(prefix), len(s)) ELSE s
TrimSuffix(s, suffix) == IF HasSuffix(s, suffix) THEN Slice(s, 0, len(s) - Len(suffix)) ELSE s

\* strings.LastIndex(s, substr), -1 when substr does not occur.
LastIndex(s, substr) ==
    LET occ == Occurrences(s, substr)
    IN  IF occ = {} THEN -1 ELSE CHOOSE i \in occ : \A j \in occ : j <= i

RECURSIVE Split(_, _)
\* strings.Split(s, sep) for a separator that is not empty.
Split(s, sep) ==
    LET i == Index(s, sep)
    IN  IF i = -1 THEN <<s>>
        ELSE <<Slice(s, 0, i)>> \o Split(Slice(s, i + Len(sep), len(s)), sep)

\* The character class [a-zA-Z0-9._-] of parseOrgRepo.
OrgRepoChars == Letters \union DigitChars \union { ".", "_", "-" }

\* regexp `^([a-zA-Z0-9._-]+)/([a-zA-Z0-9._-]+)$`.
parseOrgRepo(input) ==
    LET i == Index(input, <<"/">>)
        org == Slice(input, 0, i)
        repo == Slice(input, i + 1, len(input))
    IN  IF /\ i >= 1
           /\ Len(repo) >= 1
           /\ \A k \in 1..Len(org) : org[k] \in OrgRepoChars
           /\ \A k \in 1..Len(repo) : repo[k] \in OrgRepoChars
        THEN [ok |-> TRUE, org |-> org, repo |-> repo]
        ELSE [ok |-> FALSE, org |-> <<>>, repo |-> <<>>]

\* net/url getScheme: the letters, digits, "+", "-" and "." before the first
\* ":" when the first of them is a letter; no scheme when another character
\* comes first; an error when the text begins with ":".
getScheme(rawURL) ==
    LET stops == { i \in 1..Len(rawURL) :
                     /\ rawURL[i] \notin Letters
                     /\ ~(i > 1 /\ rawURL[i] \in DigitChars \union { "+", "-", "." }) }
        i == IF stops = {} THEN 0 ELSE CHOOSE k \in stops : \A j \in stops : k <= j
    IN  IF i = 0 \/ rawURL[i] # ":"
        THEN [ok |-> TRUE, scheme |-> <<>>, rest |-> rawURL]
        ELSE IF i = 1
        THEN [ok |-> FALSE, scheme |-> <<>>, rest |-> <<>>]
        ELSE [ok |-> TRUE, scheme |-> SubSeq(rawURL, 1, i - 1),
              rest |-> SubSeq(rawURL, i + 1, Len(rawURL))]

\* net/url validUserinfo.
UserinfoChars ==
    Letters \union DigitChars
        \union { "-", ".", "_", ":", "~", "!", "$", "&", "'", "(", ")", "*", "+", ",",
                 ";", "=", "%", "@" }

\* net/url parseAuthority: the user information before the last "@" holds
\* valid characters only, and what follows the last ":" of the host is a
\* port, digits or nothing.  (An IP-literal host in brackets and percent
\* escapes are left out: no input of the model has "[" or "%".)
validAuthority(authority) ==
    LET at == LastIndex(authority, <<"@">>)
        host == IF at = -1 THEN authority ELSE Slice(authority, at + 1, len(authority))
        userinfo == IF at = -1 THEN <<>> ELSE Slice(authority, 0, at)
        colon == LastIndex(host, <<":">>)
        port == IF colon = -1 THEN <<>> ELSE Slice(host, colon + 1, len(host))
    IN  /\ \A k \in 1..Len(port) : port[k] \in DigitChars
        /\ \A k \in 1..Len(userinfo) : userinfo[k] \in UserinfoChars

\* net/url Parse after getScheme has split the scheme off (g): the
\* authority and the path, for a text without "?", "#", "%", blanks and
\* control characters.
parseRest(g) ==
    LET scheme == ToLower(g.scheme)
        rest == g.rest
        slash == Index(Slice(rest, 2, len(rest)), <<"/">>)
        authority == IF slash = -1 THEN Slice(rest, 2, len(rest))
                     ELSE Slice(rest, 2, 2 + slash)
        afterAuthority == IF slash = -1 THEN <<>> ELSE Slice(rest, 2 + slash, len(rest))
        first == Index(rest, <<"/">>)
        segment == IF first = -1 THEN rest ELSE Slice(rest, 0, first)
    IN  IF ~g.ok THEN [ok |-> FALSE, Scheme |-> <<>>, Path |-> <<>>]
        ELSE IF ~HasPrefix(rest, <<"/">>)
        THEN IF scheme # <<>> THEN [ok |-> TRUE, Scheme |-> scheme, Path |-> <<>>]
             ELSE IF Contains(segment, <<":">>)
             THEN [ok |-> FALSE, Scheme |-> <<>>, Path |-> <<>>]
             ELSE [ok |-> TRUE, Scheme |-> scheme, Path |-> rest]
        ELSE IF HasPrefix(rest, <<"/","/">>) /\ (scheme # <<>> \/ ~HasPrefix(rest, <<"/","/","/">>))
        THEN IF validAuthority(authority)
             THEN [ok |-> TRUE, Scheme |-> scheme, Path |-> afterAuthority]
             ELSE [ok |-> FALSE, Scheme |-> <<>>, Path |-> <<>>]
        ELSE [ok |-> TRUE, Scheme |-> scheme, Path |-> rest]

\* net/url Parse: the scheme in lower case and the path.
URLParse(rawURL) == parseRest(getScheme(rawURL))

\* parseHTTPSURL after url.Parse (u) and strings.Split (parts).
httpsOrgRepo(u, parts) ==
    IF u.ok /\ u.Scheme = <<"h","t","t","p","s">> /\ Len(parts) >= 2
    THEN [ok |-> TRUE, org |-> parts[1], repo |-> parts[2]]
    ELSE [ok |-> FALSE, org |-> <<>>, repo |-> <<>>]

\* The path of the URL as parseHTTPSURL splits it.
httpsParts(u) == Split(TrimSuffix(TrimPrefix(u.Path, <<"/">>), <<".","g","i","t">>), <<"/">>)

\* parseHTTPSURL(input).
parseHTTPSURL(input) == httpsOrgRepo(URLParse(input), httpsParts(URLParse(input)))

\* parseSSHURL(input): regexp `^git@([^:]+):([^/]+)/([^/]+)(?:\.git)?$`; the
\* third group is greedy and takes a trailing ".git" with it, which
\* strings.TrimSuffix then removes once.
parseSSHURL(input) ==
    LET rest == Slice(input, 4, len(input))
        colon == Index(rest, <<":">>)
        path == Slice(rest, colon + 1, len(rest))
        slash == Index(path, <<"/">>)
        org == Slice(path, 0, slash)
        last3 == Slice(path, slash + 1, len(path))
    IN  IF /\ HasPrefix(input, <<"g","i","t","@">>)
           /\ colon >= 1
           /\ slash >= 1
           /\ Len(last3) >= 1
           /\ ~Contains(last3, <<"/">>)
        THEN [ok |-> TRUE, org |-> org, repo |-> TrimSuffix(last3, <<".","g","i","t">>)]
        ELSE [ok |-> FALSE, org |-> <<>>, repo |-> <<>>]

\* fmt.Sprintf("git@%s:%s/%s.git", alias, org, repo).
SSHURL(alias, org, repo) == <<"g","i","t","@">> \o alias \o <<":">> \o org \o <<"/">> \o repo \o <<".","g","i","t">>

\* The first of the three parses that matches.
FirstOk(a, b, c) == IF a.ok THEN a ELSE IF b.ok THEN b ELSE c

\* What RewriteURL returns for the parse r.
RewriteResult(r, alias) ==
    IF r.ok
    THEN [fn |-> "RewriteURL", org |-> r.org, repo |-> r.repo,
          sshURL |-> SSHURL(alias, r.org, r.repo), err |-> "nil"]
    ELSE [fn |-> "RewriteURL", org |-> <<>>, repo |-> <<>>, sshURL |-> <<>>,
          err |-> "unable to parse URL"]

\* RewriteURL(input, alias) returns (org, repo, sshURL, err).
RewriteURL(input, alias) ==
    RewriteResult(FirstOk(parseOrgRepo(input), parseHTTPSURL(input), parseSSHURL(input)), alias)

\* The inputs: an organisation and a repository spelled in one of the three
\* forms, with or without ".git", and texts in none of the forms.
RewriteOrgs == { <<"o">>, <<"m","y","-","o","r","g">> }
RewriteRepos == { <<"r">>, <<"m","y","_","r","e","p","o">>, <<"v",".","2">> }
RewriteHosts == { <<"g","i","t","h","u","b",".","c","o","m">>, <<"h">> }
RewriteAliases == { <<"g","i","t","h","u","b","-","c","o","m","-","w">>, <<"h","-","w">> }
GitSuffixes == { <<>>, <<".","g","i","t">> }
Forms == { "ORG/REPO", "https", "ssh" }

\* An organisation and a repository spelled in a form.
Spelled(form, host, org, repo, suffix) ==
    IF form = "ORG/REPO" THEN org \o <<"/">> \o repo \o suffix
    ELSE IF form = "https" THEN <<"h","t","t","p","s",":","/","/">> \o host \o <<"/">> \o org \o <<"/">> \o repo \o suffix
    ELSE <<"g","i","t","@">> \o host \o <<":">> \o org \o <<"/">> \o repo \o suffix

NoForm ==
    { <<"n","o","t","-","a","-","u","r","l">>, <<>>, <<"h","t","t","p",":","/","/","g","i","t","h","u","b",".","c","o","m","/","o","/","r",".","g","i","t">>, <<"g","i","t","@","g","i","t","h","u","b",".","c","o","m">>,
      <<"h","t","t","p","s",":","/","/","g","i","t","h","u","b",".","c","o","m">>, <<"h","t","t","p","s",":","/","/","g","i","t","h","u","b",".","c","o","m","/","o">>, <<"g","i","t","@","g","i","t","h","u","b",".","c","o","m",":","o">>,
      <<":","o","/","r">>, <<"o","/","r","/">> }

InitRewrite ==
    /\ \/ \E form \in Forms, host \in RewriteHosts, org \in RewriteOrgs,
             rp \in RewriteRepos, suffix \in GitSuffixes, alias \in RewriteAliases :
            args = [fn |-> "RewriteURL", form |-> form, org |-> org, repo |-> rp,
                    input |-> Spelled(form, host, org, rp, suffix), alias |-> alias]
       \/ \E input \in NoForm, alias \in RewriteAliases :
            args = [fn |-> "RewriteURL", form |-> "none", org |-> <<>>, repo |-> <<>>,
                    input |-> input, alias |-> alias]
    /\ result = NoResult
    /\ gitRepo = NoRepo
    /\ fix = NoFix
    /\ issues = <<>>
    /\ EditIdle
    /\ markers.file = "ssh"
    /\ FsIdle
    /\ CliIdle
    /\ RaceIdle

\* rewrite.RewriteURL(input, alias) is called.
CallRewriteURL ==
    /\ args.fn = "RewriteURL"
    /\ result = NoResult
    /\ result' = RewriteURL(args.input, args.alias)
    /\ UNCHANGED <<args, gitRepo, fix, issues>>
    /\ UNCHANGED <<editVars, fsVars, cliVars, raceVars>>

NextRewrite == CallRewriteURL

SpecRewrite == InitRewrite /\ [][NextRewrite]_vars

(***************************************************************************)
(* internal/workspace: BuildSSHAlias as a function of its arguments.      *)
(***************************************************************************)
\* --host values (the three providers) and --host-name values.
AliasHosts == DOMAIN ProviderHosts \union { <<"g","i","t",".","e","x","a","m","p","l","e",".","c","o","m">>, <<"G","i","t","H","u","b">> }

\* Workspace names: lowercase letters and digits, and names with other
\* characters; one name long enough for the 63-character cut.
AliasWorkspaces ==
    (Concats({ <<"w">>, <<"o","r","k">>, <<"1">> }, MaxPieces) \ { <<>> })
        \union { <<"p","e","r","s","o","n","a","l">>, <<"M","y","_","W","S">>, <<"a","-","-","b">>, <<"-","x","-">>,
                 <<"a","-","v","e","r","y","-","l","o","n","g","-","w","o","r","k","s","p","a","c","e","-","n","a","m","e","-","t","h","a","t","-","g","o","e","s","-","p","a","s","t","-","t","h","e","-","l","i","m","i","t","-","x","x","x","x","x">> }

InitAlias ==
    /\ \E h \in AliasHosts, w \in AliasWorkspaces :
          args = [fn |-> "BuildSSHAlias", providerOrHost |-> h, workspace |-> w]
    /\ result = NoResult
    /\ gitRepo = NoRepo
    /\ fix = NoFix
    /\ issues = <<>>
    /\ EditIdle
    /\ markers.file = "ssh"
    /\ FsIdle
    /\ CliIdle
    /\ RaceIdle

\* workspace.BuildSSHAlias(providerOrHost, workspaceName) is called.
CallBuildSSHAlias ==
    /\ args.fn = "BuildSSHAlias"
    /\ result = NoResult
    /\ result' = [fn |-> "BuildSSHAlias",
                  alias |-> BuildSSHAlias(args.providerOrHost, args.workspace)]
    /\ UNCHANGED <<args, gitRepo, fix, issues>>
    /\ UNCHANGED <<editVars, fsVars, cliVars, raceVars>>

NextAlias == CallBuildSSHAlias

SpecAlias == InitAlias /\ [][NextAlias]_vars

(***************************************************************************)
(* internal/git and the repository commands: one repository, with its root *)
(* directory, its origin remote, its local configuration and its two guard *)
(* hooks, and the registry ~/.gws/config.yaml as runInit has written it.   *)
(* A git call fails where the code has an error branch for it; a loop over *)
(* the registry (a Go map) meets the workspaces in any order.              *)
(***************************************************************************)
\* The keys of the local configuration that the commands read and write; a
\* key that is not set holds the empty string.
ConfigKeys == { "user.name", "user.email", "gpg.format", "user.signingkey", "commit.gpgsign" }

NoConfig == [k \in ConfigKeys |-> <<>>]

\* The workspaces that init has registered, with their default roots.
RepoWorkspaces == { <<"w","o","r","k">>, <<"w","o","r","k","2">> }

\* The record runInit saves for a workspace (--host github, --signing ssh,
\* no --root and no --name, $USER not set).
Registered(workspaceName) ==
    [Email |-> workspaceName \o <<"@","e">>, Provider |-> InitHost,
     HostName |-> ProviderHosts[InitHost],
     SSHAlias |-> BuildSSHAlias(InitHost, workspaceName),
     SSHKey |-> PrivPath(workspaceName), Root |-> DefaultRoot(workspaceName),
     Signing |-> <<"s","s","h">>, Name |-> workspaceName]

\* The registry files: any of the workspaces registered.
Registries == { [w \in S |-> Registered(w)] : S \in SUBSET RepoWorkspaces }

\* The orders in which a range loop can meet the keys of the map cfg.
Orders(cfg) ==
    { o \in [1..Cardinality(DOMAIN cfg) -> DOMAIN cfg] :
        \A i, j \in DOMAIN o : o[i] = o[j] => i = j }

\* The key at which a range loop in this order breaks: the first one that
\* matches, and found = FALSE when the loop ends without a match.
FirstMatch(order, matching) ==
    LET hits == { i \in DOMAIN order : order[i] \in matching }
    IN  IF hits = {} THEN [found |-> FALSE, name |-> <<>>]
        ELSE [found |-> TRUE,
              name |-> order[CHOOSE i \in hits : \A j \in hits : i <= j]]

\* A repository.
Repo(gitRoot, hasRemote, remoteURL, config, preCommit, prePush) ==
    [exists |-> TRUE, gitRoot |-> gitRoot, hasRemote |-> hasRemote,
     remoteURL |-> remoteURL, config |-> config,
     preCommit |-> preCommit, prePush |-> prePush]

\* git.GetRemoteURL(repoPath): git prints the URL and a line end, which
\* strings.TrimSpace takes off; git fails when there is no origin remote.
GetRemoteURL(r, ok) ==
    IF ok /\ r.hasRemote THEN [url |-> r.remoteURL, err |-> "nil"]
    ELSE [url |-> <<>>, err |-> "failed to get remote URL"]

\* git.GetLocalConfig(repoPath, key): git fails when the key is not set.
GetLocalConfig(r, key, ok) ==
    IF ok /\ r.config[key] # <<>> THEN [value |-> r.config[key], err |-> "nil"]
    ELSE [value |-> <<>>, err |-> "failed to get local config"]

\* git.SetLocalConfig(repoPath, key, value), and the error its caller
\* returns when it fails.  s is the repository and the error so far.
SetLocalConfig(s, key, value, fail, err) ==
    IF s.err # "nil" THEN s
    ELSE IF fail = err THEN [s EXCEPT !.err = err]
    ELSE [s EXCEPT !.repo.config[key] = value]

\* git.CheckHooksInstalled(repoPath): both hook files exist.
CheckHooksInstalled(r) == r.preCommit /\ r.prePush

\* git.InstallHooks(repoPath): the pre-commit hook is written, then the
\* pre-push hook.
InstallHooks(s, fail) ==
    IF s.err # "nil" THEN s
    ELSE IF fail = "failed to write pre-commit hook" THEN [s EXCEPT !.err = fail]
    ELSE IF fail = "failed to write pre-push hook"
    THEN [s EXCEPT !.repo.preCommit = TRUE, !.err = fail]
    ELSE [s EXCEPT !.repo.preCommit = TRUE, !.repo.prePush = TRUE]

\* rewrite.ExtractHostFromSSHURL(sshURL): regexp `^git@([^:]+):`.
ExtractHostFromSSHURL(sshURL) ==
    LET rest == Slice(sshURL, 4, len(sshURL))
        colon == Index(rest, <<":">>)
    IN  IF HasPrefix(sshURL, <<"g","i","t","@">>) /\ colon >= 1
        THEN [host |-> Slice(rest, 0, colon), err |-> "nil"]
        ELSE [host |-> <<>>, err |-> "invalid SSH URL format"]

\* filepath.Join(root, org, repo) for a root that is a clean path and an
\* org and a repo that are single path elements.
JoinPath(root, org, repo) == root \o <<"/">> \o org \o <<"/">> \o repo

\* setupRepositoryConfig(repoPath, ws).
setupRepositoryConfig(s, ws, fail) ==
    LET s1 == SetLocalConfig(s, "user.name", ws.Name, fail, "failed to set user.name")
        s2 == SetLocalConfig(s1, "user.email", ws.Email, fail, "failed to set user.email")
    IN  IF ws.Signing = <<"s","s","h">>
        THEN LET s3 == SetLocalConfig(s2, "gpg.format", <<"s","s","h">>, fail, "failed to set gpg.format")
                 s4 == SetLocalConfig(s3, "user.signingkey", ws.SSHKey \o <<".","p","u","b">>, fail, "failed to set signing key")
             IN  SetLocalConfig(s4, "commit.gpgsign", <<"t","r","u","e">>, fail, "failed to enable commit signing")
        ELSE IF ws.Signing = <<"g","p","g">>
        THEN SetLocalConfig(s2, "commit.gpgsign", <<"t","r","u","e">>, fail, "failed to enable commit signing")
        ELSE IF ws.Signing = <<"n","o","n","e">>
        THEN SetLocalConfig(s2, "commit.gpgsign", <<"f","a","l","s","e">>, fail, "failed to disable commit signing")
        ELSE s2

\* runClone(workspaceName, urlOrRepo) where r is the repository at the
\* destination, if there is one.
runClone(r, cfg, workspaceName, urlOrRepo, fail) ==
    LET ws == cfg[workspaceName]
        u == RewriteURL(urlOrRepo, ws.SSHAlias)
        destPath == JoinPath(ws.Root, u.org, u.repo)
        cloned == [repo |-> Repo(destPath, TRUE, u.sshURL, NoConfig, FALSE, FALSE),
                   err |-> "nil"]
    IN  IF fail = "failed to load config" THEN [repo |-> r, err |-> fail]
        ELSE IF ~GetWorkspace(cfg, workspaceName) THEN [repo |-> r, err |-> "workspace not found"]
        ELSE IF u.err # "nil" THEN [repo |-> r, err |-> "failed to rewrite URL"]
        ELSE IF fail = "failed to create parent directory" THEN [repo |-> r, err |-> fail]
        ELSE IF r.exists THEN [repo |-> r, err |-> "destination already exists"]
        ELSE IF fail = "failed to clone repository" THEN [repo |-> r, err |-> fail]
        ELSE setupRepositoryConfig(cloned, ws, fail)

\* Where runClone can fail.
CloneFails ==
    { "none", "failed to load config", "failed to create parent directory",
      "failed to clone repository", "failed to set user.name",
      "failed to set user.email", "failed to set gpg.format",
      "failed to set signing key", "failed to enable commit signing" }

\* What clone is given as URL|ORG/REPO.
CloneURLs == { <<"o","/","r">>, <<"h","t","t","p","s",":","/","/","g","i","t","h","u","b",".","c","o","m","/","o","/","r",".","g","i","t">>, <<"n","o","t","-","a","-","u","r","l">> }

\* The repositories that are there before a command of the model runs: in a
\* workspace root or outside every root, with or without an origin remote,
\* an identity and the guard hooks.
RepoRoots == { JoinPath(DefaultRoot(w), <<"o">>, <<"r">>) : w \in RepoWorkspaces } \union { <<"/","h","/","s","r","c","/","o","/","r">> }

RepoRemotes ==
    { <<"h","t","t","p","s",":","/","/","g","i","t","h","u","b",".","c","o","m","/","o","/","r",".","g","i","t">>, <<"g","i","t","@","g","i","t","h","u","b",".","c","o","m",":","o","/","r",".","g","i","t">>,
      SSHURL(BuildSSHAlias(InitHost, <<"w","o","r","k">>), <<"o">>, <<"r">>) }

HasIdentity == [NoConfig EXCEPT !["user.name"] = <<"u">>, !["user.email"] = <<"u","@","e">>]

\* The local configuration with the hooks: no identity, a name only, an
\* identity, an identity and the guard hooks.
RepoSetups ==
    { [config |-> NoConfig, hooks |-> FALSE],
      [config |-> [NoConfig EXCEPT !["user.name"] = <<"u">>], hooks |-> FALSE],
      [config |-> HasIdentity, hooks |-> FALSE], [config |-> HasIdentity, hooks |-> TRUE] }

Repos ==
    { Repo(root, FALSE, <<>>, c.config, c.hooks, c.hooks) : root \in RepoRoots, c \in RepoSetups }
    \union
    { Repo(root, TRUE, url, c.config, c.hooks, c.hooks) :
        root \in RepoRoots, url \in RepoRemotes, c \in RepoSetups }

\* The state before a repository command: a registry and a repository, or
\* no repository yet.
InitRepo ==
    /\ registry \in Registries
    /\ gitRepo \in { NoRepo } \union Repos
    /\ args = NoArgs
    /\ result = NoResult
    /\ fix = NoFix
    /\ issues = <<>>
    /\ EditIdle
    /\ markers.file = "ssh"
    /\ FsIdle
    /\ RaceIdle
    /\ gitFile = NoFile
    /\ gitBackups = [t \in Timestamps |-> NoFile]
    /\ wsFiles = [w \in CliWorkspaces |-> NoFile]
    /\ keys = [w \in CliWorkspaces |-> NoKey]
    /\ keygens = 0
    /\ keyBackups = [w \in CliWorkspaces |-> [t \in Timestamps |-> NoKey]]
    /\ cmd = NoCmd
    /\ inited = {}

\* gitws clone <workspace> <URL|ORG/REPO>, when there is no repository yet:
\* the model holds one repository, which clone makes or which was there.
CmdClone ==
    /\ ~gitRepo.exists
    /\ \E workspaceName \in RepoWorkspaces, urlOrRepo \in CloneURLs, fail \in CloneFails :
         LET out == runClone(gitRepo, registry, workspaceName, urlOrRepo, fail)
         IN  /\ args' = [fn |-> "runClone", workspace |-> workspaceName, urlOrRepo |-> urlOrRepo]
             /\ result' = [fn |-> "runClone", err |-> out.err]
             /\ gitRepo' = out.repo
    /\ UNCHANGED <<fix, issues>>
    /\ UNCHANGED <<editVars, fsVars, cliVars, raceVars>>

(***************************************************************************)
(* cmd/gws fix: what runFix queues, shows and applies.                     *)
(***************************************************************************)
\* checkRemoteURL(remoteURL, cfg) returns (workspace, needsRewrite).
checkRemoteURL(remoteURL, cfg, order) ==
    LET h == ExtractHostFromSSHURL(remoteURL)
        m == FirstMatch(order, { name \in DOMAIN cfg : Contains(h.host, cfg[name].HostName) })
    IN  IF ~HasPrefix(remoteURL, <<"g","i","t","@">>) THEN [workspace |-> <<>>, needsRewrite |-> TRUE]
        ELSE IF h.err # "nil" THEN [workspace |-> <<>>, needsRewrite |-> TRUE]
        ELSE IF Contains(h.host, <<"g","w","s">>) \/ Contains(h.host, <<"g","i","t","w","s">>)
        THEN [workspace |-> <<>>, needsRewrite |-> FALSE]
        ELSE IF m.found THEN [workspace |-> m.name, needsRewrite |-> TRUE]
        ELSE [workspace |-> <<>>, needsRewrite |-> FALSE]

\* applyRewriteRemote once it has the remote URL (got) and RewriteURL's
\* parse of it (u).  The second loop runs when the first has found no
\* workspace, so at most one of the two loops finds one; order is the order
\* of that loop.
rewriteRemote(s, cfg, got, u, order, fail) ==
    LET h == ExtractHostFromSSHURL(got.url)
        m1 == IF HasPrefix(got.url, <<"g","i","t","@">>) /\ h.err = "nil"
              THEN FirstMatch(order, { name \in DOMAIN cfg : h.host = cfg[name].HostName })
              ELSE [found |-> FALSE, name |-> <<>>]
        m2 == IF m1.found THEN m1
              ELSE FirstMatch(order, { name \in DOMAIN cfg : cfg[name].Provider # <<>> })
    IN  IF got.err # "nil" THEN [s EXCEPT !.err = "failed to get remote URL"]
        ELSE IF u.err # "nil" THEN [s EXCEPT !.err = "failed to parse remote URL"]
        ELSE IF ~m2.found THEN [s EXCEPT !.err = "no suitable workspace found for remote URL"]
        ELSE IF fail = "failed to set remote URL" THEN [s EXCEPT !.err = fail]
        ELSE [s EXCEPT !.repo.remoteURL = SSHURL(cfg[m2.name].SSHAlias, u.org, u.repo),
                       !.remoteFrom = m2.name]

\* applyRewriteRemote(gitRoot, cfg).  s is the repository and the error so
\* far.
applyRewriteRemote(s, cfg, order, fail) ==
    LET got == GetRemoteURL(s.repo, fail # "failed to get remote URL")
    IN  rewriteRemote(s, cfg, got, RewriteURL(got.url, <<"d","u","m","m","y">>), order, fail)

\* applySetIdentity(gitRoot, cfg): the workspace is the first one the loop
\* meets whose Root is a prefix of gitRoot.
applySetIdentity(s, cfg, order, fail) ==
    LET gitRoot == s.repo.gitRoot
        m == FirstMatch(order, { name \in DOMAIN cfg : HasPrefix(gitRoot, cfg[name].Root) })
        targetWorkspace == cfg[m.name]
        s0 == [s EXCEPT !.identityFrom = m.name]
        s1 == SetLocalConfig(s0, "user.name", targetWorkspace.Name, fail, "failed to set user.name")
        s2 == SetLocalConfig(s1, "user.email", targetWorkspace.Email, fail, "failed to set user.email")
    IN  IF ~m.found THEN [s EXCEPT !.err = "no workspace found for repository path"]
        ELSE IF targetWorkspace.Signing = <<"s","s","h">>
        THEN LET s3 == SetLocalConfig(s2, "gpg.format", <<"s","s","h">>, fail, "failed to set gpg.format")
                 s4 == SetLocalConfig(s3, "user.signingkey", targetWorkspace.SSHKey \o <<".","p","u","b">>, fail, "failed to set signing key")
             IN  SetLocalConfig(s4, "commit.gpgsign", <<"t","r","u","e">>, fail, "failed to enable commit signing")
        ELSE IF targetWorkspace.Signing = <<"g","p","g">>
        THEN SetLocalConfig(s2, "commit.gpgsign", <<"t","r","u","e">>, fail, "failed to enable commit signing")
        ELSE IF targetWorkspace.Signing = <<"n","o","n","e">>
        THEN SetLocalConfig(s2, "commit.gpgsign", <<"f","a","l","s","e">>, fail, "failed to disable commit signing")
        ELSE s2

\* applyEnableGuards(gitRoot).
applyEnableGuards(s, fail) == InstallHooks(s, fail)

\* What the loop notes of a fix that has returned: applied, or failed with
\* the error that is printed.
Tally(out, done) ==
    IF out.err = "nil" THEN [out EXCEPT !.applied = Append(@, done)]
    ELSE [out EXCEPT !.failed = Append(@, out.err)]

\* One turn of the loop that applies the fixes: the fix is applied from a
\* clean error, a failure is printed and the loop goes on.
ApplyFix(s, name, cfg, o, fail) ==
    IF name = "rewrite-remote"
    THEN Tally(applyRewriteRemote([s EXCEPT !.err = "nil"], cfg, o.byHost, fail),
               "Remote URL rewritten")
    ELSE IF name = "set-identity"
    THEN Tally(applySetIdentity([s EXCEPT !.err = "nil"], cfg, o.byRoot, fail),
               "User identity set")
    ELSE Tally(applyEnableGuards([s EXCEPT !.err = "nil"], fail), "Guard hooks installed")

\* The turn of the loop for the i-th fix queued, if there is one.
ApplyAt(s, fixes, i, cfg, o, fail) ==
    IF i > Len(fixes) THEN s ELSE ApplyFix(s, fixes[i], cfg, o, fail)

\* The loop over the fixes queued: three at most, one of each kind.
ApplyFixes(s, fixes, cfg, o, fail) ==
    ApplyAt(ApplyAt(ApplyAt(s, fixes, 1, cfg, o, fail), fixes, 2, cfg, o, fail),
            fixes, 3, cfg, o, fail)

\* The flags of fix: --yes, --enable-guards, --rewrite-remote, --set-identity.
FixFlags ==
    [fixYes : BOOLEAN, fixEnableGuards : BOOLEAN, fixRewriteRemote : BOOLEAN,
     fixSetIdentity : BOOLEAN]

\* Where runFix can fail.
FixFails ==
    { "none", "failed to load config", "GetRemoteURL", "GetLocalConfig user.name",
      "GetLocalConfig user.email", "failed to get remote URL",
      "failed to set remote URL", "failed to set user.name",
      "failed to set user.email", "failed to set gpg.format",
      "failed to set signing key", "failed to enable commit signing",
      "failed to write pre-commit hook", "failed to write pre-push hook" }

\* runFix in the repository r: what it queues (fixes), what it shows
\* (changes), the answer to the prompt, and what it applies.
runFix(r, cfg, flags, answer, o, fail) ==
    LET got == GetRemoteURL(r, fail # "GetRemoteURL")
        chk == checkRemoteURL(got.url, cfg, o.byName)
        remote == got.err = "nil" /\ chk.needsRewrite /\ (flags.fixRewriteRemote \/ ~flags.fixYes)
        userName == GetLocalConfig(r, "user.name", fail # "GetLocalConfig user.name").value
        userEmail == GetLocalConfig(r, "user.email", fail # "GetLocalConfig user.email").value
        identity == (userName = <<>> \/ userEmail = <<>>) /\ (flags.fixSetIdentity \/ ~flags.fixYes)
        guards == ~CheckHooksInstalled(r) /\ (flags.fixEnableGuards \/ ~flags.fixYes)
        fixes == (IF remote THEN <<"rewrite-remote">> ELSE <<>>)
                   \o (IF identity THEN <<"set-identity">> ELSE <<>>)
                   \o (IF guards THEN <<"enable-guards">> ELSE <<>>)
        changes == (IF remote /\ chk.workspace # <<>>
                    THEN <<[change |-> "Rewrite remote URL to use workspace alias", workspace |-> chk.workspace]>>
                    ELSE <<>>)
                   \o (IF identity
                       THEN <<[change |-> "Set user identity from workspace configuration", workspace |-> <<>>]>>
                       ELSE <<>>)
                   \o (IF guards THEN <<[change |-> "Install guard hooks", workspace |-> <<>>]>> ELSE <<>>)
        s == [repo |-> r, err |-> "nil", ret |-> "nil", flags |-> flags, fixes |-> <<>>,
              changes |-> <<>>, shown |-> FALSE, asked |-> FALSE, confirmed |-> FALSE,
              applied |-> <<>>, failed |-> <<>>, remoteFrom |-> <<>>, identityFrom |-> <<>>]
        queued == [s EXCEPT !.fixes = fixes, !.changes = changes]
    IN  IF ~r.exists THEN [s EXCEPT !.ret = "not in a git repository"]
        ELSE IF fail = "failed to load config" THEN [s EXCEPT !.ret = fail]
        ELSE IF fixes = <<>> THEN queued
        ELSE IF ~flags.fixYes /\ ~answer
        THEN [queued EXCEPT !.shown = TRUE, !.asked = TRUE]
        ELSE ApplyFixes([queued EXCEPT !.shown = TRUE, !.asked = ~flags.fixYes,
                                       !.confirmed = ~flags.fixYes],
                        fixes, cfg, o, fail)

\* What a run of fix in the repository pre queued, showed and applied.
FixRan(pre, out) ==
    [ran |-> TRUE, pre |-> pre, fixes |-> out.fixes, changes |-> out.changes,
     shown |-> out.shown, asked |-> out.asked, confirmed |-> out.confirmed,
     applied |-> out.applied, failed |-> out.failed,
     remoteFrom |-> out.remoteFrom, identityFrom |-> out.identityFrom]

\* gitws fix in the repository, followed for its first run there.  The
\* prompt is answered yes or no; checkRemoteURL,
\* applyRewriteRemote and applySetIdentity each walk the registry in an
\* order of their own.
CmdFix ==
    /\ ~fix.ran
    /\ \E flags \in FixFlags, fail \in FixFails,
          o \in [byName : Orders(registry), byHost : Orders(registry),
                 byRoot : Orders(registry)] :
       \E answer \in IF flags.fixYes THEN { TRUE } ELSE BOOLEAN :
         \E out \in { runFix(gitRepo, registry, flags, answer, o, fail) } :
           /\ args' = [fn |-> "runFix", flags |-> flags]
           /\ result' = [fn |-> "runFix", err |-> out.ret]
           /\ gitRepo' = out.repo
           /\ fix' = FixRan(gitRepo, out)
    /\ UNCHANGED issues
    /\ UNCHANGED <<editVars, fsVars, cliVars, raceVars>>

NextFix == CmdClone \/ CmdFix

SpecFix == InitRepo /\ [][NextFix]_vars

(***************************************************************************)
(* cmd/gitws doctor: the checks of runAllChecks and the issues they report.*)
(***************************************************************************)
\* An issue of the report; arg is what the message is formatted with.
Issue(type, message, arg) == [Type |-> type, Message |-> message, arg |-> arg]

\* The keys GetSigningStatus reads, and the user's global configuration of
\* them (`git config --global`): nothing set, or commits signed with an SSH
\* key named without ".pub".
SigningKeys == { "commit.gpgsign", "gpg.format", "user.signingkey" }

GlobalConfigs ==
    { [k \in SigningKeys |-> <<>>],
      [k \in SigningKeys |-> IF k = "commit.gpgsign" THEN <<"t","r","u","e">>
                             ELSE IF k = "gpg.format" THEN <<"s","s","h">> ELSE <<"k">>] }

\* A key read from the local configuration and, when git fails there, from
\* the global one; err when git fails for both.
LocalOrGlobal(r, global, key, ok) ==
    LET l == GetLocalConfig(r, key, ok)
    IN  IF l.err = "nil" THEN l
        ELSE IF ok /\ global[key] # <<>> THEN [value |-> global[key], err |-> "nil"]
        ELSE [value |-> <<>>, err |-> "exit status 1"]

\* git.GetSigningStatus(repoPath) returns (enabled, method, key, nil).
GetSigningStatus(r, global, ok) ==
    LET signCommit == LocalOrGlobal(r, global, "commit.gpgsign", ok)
        gpgFormat == LocalOrGlobal(r, global, "gpg.format", ok)
        signingKey == LocalOrGlobal(r, global, "user.signingkey", ok)
    IN  IF signCommit.err # "nil" \/ signCommit.value # <<"t","r","u","e">>
        THEN [enabled |-> FALSE, method |-> <<>>, key |-> <<>>]
        ELSE [enabled |-> TRUE,
              method |-> IF gpgFormat.err # "nil" THEN <<"g","p","g">> ELSE gpgFormat.value,
              key |-> signingKey.value]

\* checkGitRepository(gitRoot).
checkGitRepository(ok, verbose) ==
    IF ~ok THEN <<Issue("error", "Git is not installed or not in PATH", <<>>)>>
    ELSE IF verbose THEN <<Issue("info", "Git version", <<>>)>>
    ELSE <<>>

\* checkRemoteConfiguration(gitRoot).
checkRemoteConfiguration(r, ok) ==
    LET got == GetRemoteURL(r, ok)
        h == ExtractHostFromSSHURL(got.url)
    IN  IF got.err # "nil" THEN <<Issue("error", "No origin remote configured", <<>>)>>
        ELSE IF ~HasPrefix(got.url, <<"g","i","t","@">>)
        THEN <<Issue("warning", "Remote URL is not using SSH", <<>>)>>
        ELSE IF h.err = "nil" /\ ~Contains(h.host, <<"g","w","s">>) /\ ~Contains(h.host, <<"g","i","t","w","s">>)
        THEN <<Issue("warning", "Remote URL not using gitws alias", h.host)>>
        ELSE <<>>

\* checkUserIdentity(gitRoot).
checkUserIdentity(r, ok) ==
    LET userName == GetLocalConfig(r, "user.name", ok)
        userEmail == GetLocalConfig(r, "user.email", ok)
    IN  (IF userName.err # "nil" \/ userName.value = <<>>
         THEN <<Issue("error", "No user.name configured", <<>>)>> ELSE <<>>)
        \o (IF userEmail.err # "nil" \/ userEmail.value = <<>>
            THEN <<Issue("error", "No user.email configured", <<>>)>> ELSE <<>>)

\* checkSigningConfiguration(gitRoot).
checkSigningConfiguration(r, global, ok) ==
    LET st == GetSigningStatus(r, global, ok)
    IN  IF ~st.enabled THEN <<>>
        ELSE (IF st.key = <<>>
              THEN <<Issue("error", "Signing enabled but no signing key configured", <<>>)>>
              ELSE <<>>)
             \o (IF st.method = <<"s","s","h">> /\ st.key # <<>> /\ ~HasSuffix(st.key, <<".","p","u","b">>)
                 THEN <<Issue("warning", "SSH signing key should end with .pub", <<>>)>>
                 ELSE <<>>)

\* checkGuardHooks(gitRoot).
checkGuardHooks(r) ==
    IF ~CheckHooksInstalled(r) THEN <<Issue("warning", "Guard hooks not installed", <<>>)>>
    ELSE <<>>

\* checkWorkspaceConsistency(gitRoot): the workspace is looked up in the
\* registry by the host of the remote.
checkWorkspaceConsistency(r, cfg, order, ok, loadFails) ==
    LET got == GetRemoteURL(r, ok)
        h == ExtractHostFromSSHURL(got.url)
        m == FirstMatch(order, { name \in DOMAIN cfg : cfg[name].SSHAlias = h.host })
    IN  IF got.err # "nil" THEN <<>>
        ELSE IF ~HasPrefix(got.url, <<"g","i","t","@">>) THEN <<>>
        ELSE IF h.err # "nil" THEN <<>>
        ELSE IF loadFails
        THEN <<Issue("warning", "Could not load workspace configuration", <<>>)>>
        ELSE IF ~m.found
        THEN <<Issue("warning", "SSH alias not found in workspace configuration", h.host)>>
        ELSE IF ~HasPrefix(r.gitRoot, cfg[m.name].Root)
        THEN <<Issue("warning", "Repository not in workspace root", cfg[m.name].Root)>>
        ELSE <<>>

\* runAllChecks(gitRoot).
runAllChecks(r, cfg, global, order, ok, verbose, loadFails) ==
    checkGitRepository(ok, verbose) \o checkRemoteConfiguration(r, ok)
        \o checkUserIdentity(r, ok) \o checkSigningConfiguration(r, global, ok)
        \o checkGuardHooks(r) \o checkWorkspaceConsistency(r, cfg, order, ok, loadFails)

\* gitws doctor in the repository: git runs or is not to be found, --verbose
\* is given or not, the registry file can be read or not.  The command
\* exits with 1 when it has reported an issue.
CmdDoctor ==
    /\ \E ok \in BOOLEAN, verbose \in BOOLEAN, loadFails \in BOOLEAN,
          global \in GlobalConfigs, order \in Orders(registry) :
         LET found == IF gitRepo.exists
                      THEN runAllChecks(gitRepo, registry, global, order, ok, verbose, loadFails)
                      ELSE <<>>
         IN  /\ args' = [fn |-> "runDoctor", verbose |-> verbose]
             /\ result' = [fn |-> "runDoctor",
                           err |-> IF gitRepo.exists THEN "nil" ELSE "not in a git repository",
                           exit |-> IF found # <<>> \/ ~gitRepo.exists THEN 1 ELSE 0]
             /\ issues' = found
    /\ UNCHANGED <<gitRepo, fix>>
    /\ UNCHANGED <<editVars, fsVars, cliVars, raceVars>>

NextDoctor == CmdClone \/ CmdDoctor

SpecDoctor == InitRepo /\ [][NextDoctor]_vars

(***************************************************************************)
(* Properties of the marker block editor.                                  *)
(***************************************************************************)
\* The pieces of doc outside every complete startMarker..endMarker region,
\* regions found as the editor finds them (first start marker, then the
\* first end marker at or after it).
RECURSIVE UserOwned(_, _, _)
UserOwned(doc, startMarker, endMarker) ==
    LET i == Index(doc, startMarker)
    IN  IF i = -1 THEN { doc }
        ELSE LET rel == Index(Slice(doc, i, len(doc)), endMarker)
             IN  IF rel = -1 THEN { doc }
                 ELSE { Slice(doc, 0, i) }
                        \union UserOwned(Slice(doc, i + rel + len(endMarker), len(doc)),
                                         startMarker, endMarker)

\* doc holds neither marker literal.
NoMarkers(doc) == ~Contains(doc, markers.start) /\ ~Contains(doc, markers.end)

\* p is a prefix of s.
IsPrefix(p, s) == Len(p) <= Len(s) /\ SubSeq(s, 1, Len(p)) = p

\* The ways to read doc as A + startMarker + OLD + endMarker + B: the
\* positions i of the start marker and j of the end marker.
Decompositions(doc) ==
    { ij \in Occurrences(doc, markers.start) \X Occurrences(doc, markers.end) :
        ij[2] >= ij[1] + len(markers.start) }

PartA(doc, ij) == Slice(doc, 0, ij[1])
PartOLD(doc, ij) == Slice(doc, ij[1] + len(markers.start), ij[2])
PartB(doc, ij) == Slice(doc, ij[2] + len(markers.end), len(doc))

\* C1: Upsert is idempotent: after an Upsert of a block, an Upsert of the
\* same block for the same marker pair returns the document unchanged.
C1_UpsertIdempotent ==
    last.op = "Upsert" =>
        ReplaceBetweenMarkers(content, markers.start, markers.end, last.block).text
            = content

\* C2: after any number of Upserts, every piece of the original document
\* that was outside a complete marker region is still in the document,
\* contiguous and in order.
C2_UserContentPreserved ==
    upsertsOnly =>
        \A part \in UserOwned(orig, markers.start, markers.end) : Contains(content, part)

\* C3 (original statement): for every reading of the input as A + startMarker + OLD +
\* endMarker + B with A and B free of marker literals, whatever OLD holds,
\* Upsert returns A + NEW + "\n" + B.
C3_ReplacementScopingAnyOld ==
    last.op = "Upsert" =>
        \A ij \in Decompositions(last.input) :
            (NoMarkers(PartA(last.input, ij)) /\ NoMarkers(PartB(last.input, ij)))
                => last.text = PartA(last.input, ij) \o last.block \o NL
                                   \o PartB(last.input, ij)

\* C3 amended: replacement scoping: for every reading of the input as
\* A + startMarker + OLD + endMarker + B with A and B free of marker
\* literals, the start marker being the first one of the input and OLD
\* holding no end marker (so the end marker after OLD is the first one at
\* or after the start marker), Upsert returns exactly A + NEW + "\n" + B.
C3_ReplacementScoping ==
    last.op = "Upsert" =>
        \A ij \in Decompositions(last.input) :
            (/\ NoMarkers(PartA(last.input, ij))
             /\ NoMarkers(PartB(last.input, ij))
             /\ ij[1] = Index(last.input, markers.start)
             /\ ~Contains(PartOLD(last.input, ij), markers.end))
                => last.text = PartA(last.input, ij) \o last.block \o NL
                                   \o PartB(last.input, ij)

\* An Upsert replaced a block in place with A, OLD and B all non-empty.
C3_Witness ==
    /\ last.op = "Upsert"
    /\ \E ij \in Decompositions(last.input) :
         /\ NoMarkers(PartA(last.input, ij)) /\ NoMarkers(PartB(last.input, ij))
         /\ ij[1] = Index(last.input, markers.start)
         /\ ~Contains(PartOLD(last.input, ij), markers.end)
         /\ PartA(last.input, ij) # <<>>
         /\ PartOLD(last.input, ij) # <<>>
         /\ PartB(last.input, ij) # <<>>
         /\ last.block # markers.start \o PartOLD(last.input, ij) \o markers.end

\* C4: first install is non-destructive: with no start marker in the input,
\* Upsert returns input + "\n" + block (block alone for the empty input),
\* reports changed, and the input is a prefix of the output.
C4_FirstInstallAppends ==
    (last.op = "Upsert" /\ ~Contains(last.input, markers.start)) =>
        /\ last.text = IF last.input = <<>> THEN last.block
                       ELSE last.input \o NL \o last.block
        /\ last.flag = TRUE
        /\ IsPrefix(last.input, last.text)

\* A first install into a non-empty document that holds an end marker only.
C4_Witness ==
    /\ last.op = "Upsert"
    /\ ~Contains(last.input, markers.start)
    /\ Contains(last.input, UserText)
    /\ Contains(last.input, markers.end)

\* A document with no managed block, or with one complete managed block.
WellFormed(doc) ==
    LET starts == Occurrences(doc, markers.start)
        ends   == Occurrences(doc, markers.end)
    IN  \/ starts = {} /\ ends = {}
        \/ /\ Cardinality(starts) = 1 /\ Cardinality(ends) = 1
           /\ \A i \in starts, j \in ends : i < j

PaddedReadings(doc) ==
    { ij \in Decompositions(doc) :
        /\ ij[2] >= ij[1] + len(markers.start) + 4
        /\ Slice(doc, ij[1] + len(markers.start), ij[1] + len(markers.start) + 2)
             = <<" ", " ">>
        /\ Slice(doc, ij[2] - 2, ij[2]) = <<" ", " ">>
        /\ ~Contains(PartA(doc, ij), markers.start)
        /\ ~Contains(Slice(doc, ij[1] + len(markers.start) + 2, ij[2] - 2),
                     markers.end) }

\* C6: extraction round-trip: for A + s + "  " + T + "  " + e + B, an
\* Extract that returns returns (trim(T), true).
C6_ExtractRoundTrip ==
    (last.op = "Extract" /\ ~last.panicked) =>
        \A ij \in PaddedReadings(last.input) :
            /\ last.flag = TRUE
            /\ last.text = TrimSpace(Slice(last.input,
                                           ij[1] + len(markers.start) + 2, ij[2] - 2))

\* C7: the marker block operations never fail: no slice they take is out of
\* range.
C7_NeverPanics == ~last.panicked

\* C16: end-to-end scenario for one workspace: starting from the empty SSH
\* config, Upsert of B1 returns exactly B1 with changed = true, a further
\* Upsert of B1 returns B1 unchanged, and an Upsert of another block B2 for
\* the same marker pair returns exactly B2: after every Upsert the document
\* is exactly the block last upserted.
C16_EndToEnd ==
    (orig = <<>> /\ markers.file = "ssh" /\ upsertsOnly /\ nops >= 1) =>
        /\ content = last.block
        /\ (nops = 1 => last.flag = TRUE)

\* The input holds the start marker and no end marker at or after it: the
\* case in which Upsert falls back to appending.
Fallback(doc) ==
    /\ Contains(doc, markers.start)
    /\ ~Contains(Slice(doc, Index(doc, markers.start), len(doc)), markers.end)

\* Inputs of a normal insert (nothing, hand-written text) and of a normal
\* in-place replace (a rendered block, alone or after hand-written text).
NormalInputs ==
    { <<>>, UserText } \union Blocks(markers)
        \union { UserText \o NL \o b : b \in Blocks(markers) }

\* C19: marker corruption is signalled: what Upsert hands back beside the
\* text when it falls back to appending (start marker present, no end
\* marker after it) differs from what it hands back for a normal insert or
\* an in-place replace.
C19_FallbackSignalled ==
    (last.op = "Upsert" /\ Fallback(last.input)) =>
        \A d \in NormalInputs, b \in Blocks(markers) :
            ReplaceBetweenMarkers(d, markers.start, markers.end, b).changed # last.flag

\* C23: corrupted block fallback: when the start marker occurs in the
\* document and the end marker does not occur at or after the start
\* marker's position (an end marker that occurs only before the start marker
\* included), Upsert returns exactly the document, a newline and the new
\* block: all existing text, the orphan start marker included, is kept
\* unmodified as a prefix.
C23_CorruptedBlockAppends ==
    (last.op = "Upsert" /\ Fallback(last.input)) =>
        /\ last.text = last.input \o NL \o last.block
        /\ content = last.text
        /\ IsPrefix(last.input, content)

\* An Upsert on a document whose only end marker stands before its start
\* marker.
C23_Witness ==
    /\ last.op = "Upsert"
    /\ Fallback(last.input)
    /\ Contains(last.input, markers.end)
    /\ Index(last.input, markers.end) < Index(last.input, markers.start)
    /\ last.text = last.input \o NL \o last.block

\* C25: managed blocks of different workspaces do not interfere: through
\* any sequence of Upserts and Removes for one workspace, the managed block
\* of every other workspace that was in the SSH config (its start marker,
\* body and end marker) stays in it byte for byte.
C25_OtherBlocksKept ==
    \A w \in PairWorkspaces :
        (PairMarkers(w) # markers /\ Contains(orig, OtherBlock(w))) =>
            Contains(content, OtherBlock(w))

(***************************************************************************)
(* Properties of the file layer.                                           *)
(***************************************************************************)
\* RemoveSSHConfigBlock has located the SSH config (the home directory was
\* resolved) and has returned.
RemoveReturned ==
    /\ pc = "idle"
    /\ ret.fn = "RemoveSSHConfigBlock"
    /\ ret.err # "failed to get home directory"

\* The block to remove was absent when the call began: no config file, no
\* start marker, or no end marker at or after the start marker.
BlockAbsent ==
    \/ ~FileExists(call.pre)
    \/ ~Contains(call.pre.data, markers.start)
    \/ ~Contains(Slice(call.pre.data, Index(call.pre.data, markers.start),
                       len(call.pre.data)), markers.end)

\* The config text before the call without the substring from the start of
\* the first start marker through the end of the first end marker after it.
BlockCutOut ==
    LET doc == call.pre.data
        i == Index(doc, markers.start)
        j == i + Index(Slice(doc, i, len(doc)), markers.end)
    IN  Slice(doc, 0, i) \o Slice(doc, j + len(markers.end), len(doc))

C9_FailureLeavesTarget ==
    (pc = "idle" /\ ret.cause # "none") =>
        /\ ret.err # "nil"
        /\ cfgFile = call.pre
        /\ ~FileExists(tmpFile)

\* The rename onto an existing file failed after the data was written.
C9_Witness ==
    /\ pc = "idle"
    /\ ret.cause = "Rename"
    /\ FileExists(call.pre)
    /\ call.pre.data # call.data

\* C10: after AtomicWrite returns nil the target holds exactly the bytes,
\* under the requested permission bits, and no temporary file remains.
C10_SuccessPostcondition ==
    (pc = "idle" /\ ret.outcome # "NoWrite" /\ ret.err = "nil") =>
        /\ FileExists(cfgFile)
        /\ cfgFile.data = call.data
        /\ cfgFile.perm = call.perm
        /\ ~FileExists(tmpFile)

\* A write that replaced an existing file holding other bytes under other
\* permission bits.
C10_Witness ==
    /\ pc = "idle"
    /\ ret.fn = "AtomicWrite"
    /\ ret.err = "nil"
    /\ FileExists(call.pre)
    /\ call.pre.data # call.data
    /\ call.pre.perm # call.perm

\* The order of the steps of one write attempt: from each position the one
\* position a successful step leads to.
StepOrder ==
    { <<"Start", "Created">>, <<"Created", "Written">>,
      <<"Written", "PermissionsSet">>, <<"PermissionsSet", "Closed">> }

\* C24: AtomicWrite follows the state machine Created(temp) -> Written ->
\* PermissionsSet -> Closed -> Renamed: a step leads to the next position in
\* this order or ends the attempt; an attempt ends Renamed (from Closed only,
\* with nil) or Aborted (with an error and the temporary file removed), and
\* nothing follows either but a new call; the target is changed by no step
\* other than the successful rename.
C24_StateMachine ==
    [][ /\ (pc # "idle" /\ pc' # "idle") => <<pc, pc'>> \in StepOrder
        /\ (pc # "idle" /\ pc' = "idle") =>
               /\ ret'.outcome \in { "Renamed", "Aborted" }
               /\ ret'.outcome = "Renamed" => (pc = "Closed" /\ ret'.err = "nil")
               /\ ret'.outcome = "Aborted" =>
                      (ret'.err # "nil" /\ ~FileExists(tmpFile') /\ cfgFile' = cfgFile)
        /\ (pc = "idle" /\ pc' # "idle") => (pc' = "Start" /\ ncalls' = ncalls + 1)
        /\ (cfgFile' # cfgFile) => (pc = "Closed" /\ ret'.outcome = "Renamed")
      ]_vars

\* A second attempt was aborted at Close, after the first one was renamed
\* onto the target.
C24_Witness ==
    /\ pc = "idle"
    /\ ncalls = 2
    /\ ret.outcome = "Aborted"
    /\ ret.cause = "Close"
    /\ ~FileExists(tmpFile)
    /\ FileExists(cfgFile)
    /\ cfgFile = call.pre
    /\ call.data # cfgFile.data

\* C11: atomic visibility: what a reader finds at the target path, at any
\* point of an AtomicWrite (between any two of its steps, or after it stopped
\* at any step), is the complete old file or the complete new one: the file
\* as it was before the call, or exactly the bytes handed to the call under
\* the requested permission bits; until the rename it is the old file.
C11_AtomicVisibility ==
    call.fn # "none" =>
        /\ cfgFile \in { call.pre, File(call.data, call.perm) }
        /\ (pc # "idle" => cfgFile = call.pre)

\* The new bytes are in the temporary file, the write has not finished, and
\* the target holds other bytes.
C11_Witness ==
    /\ pc = "Written"
    /\ tmpFile.data = call.data
    /\ FileExists(call.pre)
    /\ call.pre.data # call.data
    /\ call.data # <<>>

\* CreateBackup(path) was called on its own and has returned.
BackupReturned == pc = "idle" /\ ret.fn = "CreateBackup"

\* The backup files that exist now and did not exist before the call.
NewBackups ==
    { t \in Timestamps : ~FileExists(call.preBackups[t]) /\ FileExists(backups[t]) }

\* C12: backup creation: when path exists, a CreateBackup(path) that
\* returns nil has created exactly one new file path.bak.<timestamp> whose
\* content is the content path had before the call, and path is unchanged;
\* when path does not exist no file is created and nil is returned.
C12_BackupCreatesOneFile ==
    BackupReturned =>
        IF FileExists(call.pre)
        THEN ret.err = "nil" =>
                /\ Cardinality(NewBackups) = 1
                /\ \A t \in NewBackups : backups[t].data = call.pre.data
                /\ cfgFile = call.pre
        ELSE /\ ret.err = "nil"
             /\ backups = call.preBackups
             /\ cfgFile = call.pre

\* The commands that back the config file up before they edit it.
BackedUpCommands ==
    { "UpsertSSHConfigBlock", "updateGlobalGitConfig", "RemoveSSHConfigBlock" }

\* C13: pre-edit copies stay recoverable: after a backup-then-write cycle
\* that returned nil, a backup file holds the content the config file had
\* immediately before the cycle, and the content of every non-empty backup
\* file that existed before the cycle (the copies of the earlier cycles) is
\* still held by a backup file, two cycles within one clock second included.
C13_PreEditCopiesRecoverable ==
    (pc = "idle" /\ ret.fn \in BackedUpCommands /\ ret.err = "nil") =>
        /\ FileExists(call.pre) =>
               \E t \in Timestamps :
                   FileExists(backups[t]) /\ backups[t].data = call.pre.data
        /\ \A t \in Timestamps :
               (FileExists(call.preBackups[t]) /\ call.preBackups[t].data # <<>>) =>
                   \E u \in Timestamps :
                       /\ FileExists(backups[u])
                       /\ backups[u].data = call.preBackups[t].data

\* C14: backup precedes every destructive edit and its failure is fatal:
\* in UpsertSSHConfigBlock, updateGlobalGitConfig and RemoveSSHConfigBlock
\* a backup file holds the content of the existing target from the moment
\* AtomicWrite is entered (so before any write to the target), and when
\* CreateBackup fails the command returns an error without entering
\* AtomicWrite and the target is as it was.
C14_BackupPrecedesWrite ==
    call.fn \in BackedUpCommands =>
        /\ ((pc # "idle" \/ cfgFile # call.pre) /\ FileExists(call.pre)) =>
               \E t \in Timestamps : backups[t] = File(call.pre.data, "0644")
        /\ (pc = "idle" /\ ret.err = "failed to create backup") =>
               /\ ret.outcome = "NoWrite"
               /\ cfgFile = call.pre

\* updateGlobalGitConfig gave up on a gitconfig that holds a managed block
\* because the backup could not be written.
C14_Witness ==
    /\ pc = "idle"
    /\ call.fn = "updateGlobalGitConfig"
    /\ ret.err = "failed to create backup"
    /\ FileExists(call.pre)
    /\ Contains(call.pre.data, markers.start)
    /\ \E t \in Timestamps : backups[t] = File(<<>>, "0644")

(***************************************************************************)
(* Properties of the commands.                                             *)
(***************************************************************************)
\* The path line of the includeIf stanza of workspace w.
IncludePathLine(w) == <<"\n"," "," ","p","a","t","h"," ","="," ">> \o GitConfigPath(w) \o <<"\n">>

\* C15: the shared includeIf block holds the complete set of workspaces:
\* after an init that returned nil, the global gitconfig holds exactly one
\* includeIf stanza for every workspace whose init has returned nil, none
\* missing and none duplicated.
C15_AllWorkspacesIncluded ==
    (cmd.name = "init" /\ cmd.err = "nil") =>
        \A w \in inited :
            Cardinality(Occurrences(gitFile.data, IncludePathLine(w))) = 1

\* init returned an error after its SSH config update succeeded.
InitFailedAfterSSH ==
    /\ cmd.name = "init"
    /\ cmd.err # "nil"
    /\ "SSH config" \in cmd.wrote

\* The text a file holds (nothing when it does not exist).
TextOf(f) == IF FileExists(f) THEN f.data ELSE <<>>

\* The SSH config holds the block init rendered for the workspace, written
\* whole into the text the file held before.
SSHBlockKept ==
    LET w == cmd.ws
        block == SSHBlock(StartMarker(w), Aliases[w], ProviderHosts[InitHost],
                          PrivPath(w), EndMarker(w))
    IN  /\ Contains(cfgFile.data, block)
        /\ cfgFile = File(ReplaceBetweenMarkers(TextOf(cmd.preSSH), StartMarker(w),
                                                EndMarker(w), block).text, "0644")

\* The global gitconfig is as it was before init, or holds the complete new
\* text init computed for it.
GitConfigWhole ==
    \/ gitFile = cmd.preGit
    \/ \E r \in InitRoots :
         LET root == IF r = <<>> THEN DefaultRoot(cmd.ws) ELSE r
             block == IncludeIfBlock(IncludeIfStartMarker,
                                     BuildIncludeIfCondition(root),
                                     GitConfigPath(cmd.ws), IncludeIfEndMarker)
         IN  gitFile = File(ReplaceBetweenMarkers(TextOf(cmd.preGit),
                                                  IncludeIfStartMarker,
                                                  IncludeIfEndMarker, block).text,
                            "0644")

\* C18 (original statement): when the global gitconfig update or a later
\* step of init fails after the SSH config update succeeded, init returns
\* an error, the SSH config keeps the newly written block, no managed file
\* is partially written, and the workspace is not recorded in the registry.
C18_WorkspaceNotRecorded ==
    InitFailedAfterSSH =>
        /\ SSHBlockKept
        /\ GitConfigWhole
        /\ ~GetWorkspace(registry, cmd.ws)

\* C18 amended: multi-file init is atomic per file but not transactional:
\* when the global gitconfig update or a later step of init fails after the
\* SSH config update succeeded, init returns an error, the SSH config keeps
\* the newly written block, and no managed file is partially written; when
\* the failing step is the gitconfig update, the workspace gitconfig write
\* or the registry save, the registry does not gain the record of this init
\* (it is as it was before init, with the earlier record of a workspace
\* re-initialized under --force, or cut short by the failed save); when the
\* failing step comes after the registry save (the read of the public key),
\* the workspace is recorded although init returns an error.
C18_NotTransactional ==
    InitFailedAfterSSH =>
        /\ SSHBlockKept
        /\ GitConfigWhole
        /\ IF "registry" \in cmd.wrote
           THEN GetWorkspace(registry, cmd.ws) /\ cmd.err = "failed to read public key"
           ELSE registry \in { cmd.preRegistry, NoWorkspaces }

\* init --force of a recorded workspace, with another root, wrote the SSH
\* config and the global gitconfig and failed at the workspace gitconfig:
\* the registry keeps the earlier record.
C18_Witness ==
    /\ InitFailedAfterSSH
    /\ cmd.err = "failed to write workspace gitconfig"
    /\ gitFile # cmd.preGit
    /\ GetWorkspace(cmd.preRegistry, cmd.ws)
    /\ registry = cmd.preRegistry
    /\ ~Contains(gitFile.data, BuildIncludeIfCondition(registry[cmd.ws].Root))

\* C29: init refuses to overwrite without --force and changes nothing: when
\* the workspace name is already in the registry and --force is not set,
\* init returns an error and the SSH key files, the SSH config, the global
\* gitconfig, the per-workspace gitconfig files, the registry file and the
\* backup files are all as they were.
C29_RefusesWithoutForce ==
    [][ (/\ ncalls' # ncalls
         /\ cmd'.name = "init"
         /\ cmd'.ws \in DOMAIN registry
         /\ ~cmd'.force) =>
            /\ cmd'.err # "nil"
            /\ cmd'.wrote = {}
            /\ UNCHANGED <<cfgFile, backups, gitFile, gitBackups, wsFiles,
                           registry, keys, keygens, keyBackups>>
      ]_vars

\* init of a recorded workspace without --force returned "already exists".
C29_Witness ==
    /\ cmd.name = "init"
    /\ ~cmd.force
    /\ cmd.ws \in DOMAIN cmd.preRegistry
    /\ cmd.err = "already exists"
    /\ registry = cmd.preRegistry
    /\ cfgFile = cmd.preSSH
    /\ gitFile = cmd.preGit

C20_RotationGeneratesNewKey ==
    (/\ cmd.name = "rotate"
     /\ cmd.confirmed
     /\ cmd.err = "nil"
     /\ GetWorkspace(cmd.preRegistry, cmd.ws)
     /\ cmd.preKey # NoKey) =>
        /\ \E t \in Timestamps : keyBackups[cmd.ws][t] = cmd.preKey
        /\ keys[cmd.ws] # NoKey
        /\ keys[cmd.ws] # cmd.preKey

(***************************************************************************)
(* Properties of the concurrent invocations.                               *)
(***************************************************************************)
\* The full content invocation p computes from the text it read.
Computed(p) ==
    ReplaceBetweenMarkers(proc[p].content, StartMarker(RaceWorkspace(p)),
                          EndMarker(RaceWorkspace(p)), RaceBlock(p)).text

\* C17: last writer wins: once an invocation has renamed, the config file
\* is, in every interleaving, exactly the full content computed by the
\* invocation that renamed last from the text it had read, never a merge of
\* the two contents.
C17_LastWriterWins ==
    lastRename # 0 => cfgFile = File(Computed(lastRename), "0644")

\* The lost update: both invocations have returned nil and the block one of
\* them wrote is absent from the config file.
C17_Witness ==
    /\ \A p \in Procs : proc[p].pc = "Done" /\ proc[p].err = "nil"
    /\ \E p \in Procs : ~Contains(cfgFile.data, RaceBlock(p))
    /\ \E p \in Procs : Contains(cfgFile.data, RaceBlock(p))

(***************************************************************************)
(* Properties of the tools: RewriteURL, BuildSSHAlias, fix and doctor.     *)
(***************************************************************************)
\* C21: RewriteURL normalizes every accepted spelling: for an organisation
\* and a repository spelled as ORG/REPO, https://host/org/repo[.git] or
\* git@host:org/repo[.git], it returns nil, the organisation and the
\* repository named, a repo without a trailing ".git", and sshURL equal to
\* "git@" + alias + ":" + org + "/" + repo + ".git" with exactly one ".git"
\* suffix; for a text in none of the forms it returns an error with empty
\* results.
C21_RewriteNormalizes ==
    (result.fn = "RewriteURL") =>
        IF args.form \in Forms
        THEN /\ result.err = "nil"
             /\ result.org = args.org
             /\ result.repo = args.repo
             /\ ~HasSuffix(result.repo, <<".","g","i","t">>)
             /\ result.sshURL = SSHURL(args.alias, args.org, args.repo)
             /\ ~HasSuffix(result.sshURL, <<".","g","i","t",".","g","i","t">>)
        ELSE /\ result.err # "nil"
             /\ result.org = <<>>
             /\ result.repo = <<>>
             /\ result.sshURL = <<>>

\* C22: SSH aliases have the documented form <provider>-<workspace>: for a
\* known provider (github, gitlab, bitbucket) and a workspace name of
\* lowercase letters and digits, BuildSSHAlias returns the provider, "-"
\* and the workspace name (github-work, gitlab-personal).
C22_AliasIsProviderDashWorkspace ==
    (/\ result.fn = "BuildSSHAlias"
     /\ args.providerOrHost \in DOMAIN ProviderHosts
     /\ Len(args.workspace) > 0
     /\ \A k \in 1..Len(args.workspace) :
            args.workspace[k] \in DigitChars \union { LowerCase[j] : j \in 1..Len(LowerCase) }) =>
        result.alias = args.providerOrHost \o <<"-">> \o args.workspace

\* dir contains path at a directory boundary: path is dir, or path goes on
\* after dir with a "/".
UnderRoot(path, dir) == path = dir \/ HasPrefix(path, dir \o <<"/">>)

\* C26: the set-identity fix applies the right workspace's identity: when
\* applySetIdentity has chosen a workspace and set the identity from it, the
\* root of that workspace contains the repository at a directory boundary,
\* the user.name that was set is that workspace's, and whatever the order in
\* which the registry is walked the workspace chosen is the same.
C26_RightIdentity ==
    (fix.ran /\ fix.identityFrom # <<>>) =>
        /\ UnderRoot(gitRepo.gitRoot, registry[fix.identityFrom].Root)
        /\ \A order \in Orders(registry) :
             applySetIdentity([repo |-> fix.pre, err |-> "nil", identityFrom |-> <<>>],
                              registry, order, "none").identityFrom = fix.identityFrom

\* The fix names that have an entry in the list of changes shown.
Announced(changes) ==
    { IF changes[i].change = "Rewrite remote URL to use workspace alias" THEN "rewrite-remote"
      ELSE IF changes[i].change = "Set user identity from workspace configuration" THEN "set-identity"
      ELSE "enable-guards" : i \in DOMAIN changes }

\* C27: fix applies only what it announced: in every run of runFix each fix
\* queued has its entry in the list of changes shown before the prompt, as
\* many changes are shown as fixes are queued, and when the user declines
\* nothing is applied and the repository is as it was.
C27_AppliesOnlyAnnounced ==
    fix.ran =>
        /\ Len(fix.changes) = Len(fix.fixes)
        /\ \A i \in DOMAIN fix.fixes : fix.fixes[i] \in Announced(fix.changes)
        /\ (fix.asked /\ ~fix.confirmed) => (fix.applied = <<>> /\ gitRepo = fix.pre)

\* The messages of the issues reported.
Reported == { issues[i].Message : i \in DOMAIN issues }

\* C28: doctor recognizes workspace aliases: when doctor has run in a
\* repository whose origin is git@<alias>:org/repo.git with <alias> the
\* SSHAlias of a registered workspace, it has raised no "not using gitws
\* alias" warning, and no "alias not found" warning either.
C28_DoctorKnowsAliases ==
    (/\ result.fn = "runDoctor"
     /\ result.err = "nil"
     /\ gitRepo.hasRemote
     /\ \E w \in DOMAIN registry :
          ExtractHostFromSSHURL(gitRepo.remoteURL).host = registry[w].SSHAlias)
        => /\ "Remote URL not using gitws alias" \notin Reported
           /\ "SSH alias not found in workspace configuration" \notin Reported

====
